---- MODULE Spec2Model ----
(***************************************************************************)
(* Model of the MIDI command-mapping and volume-state core of EVM-Deck:    *)
(* KetronVolumeManager (devdeck/ketron/ketron_volume_manager.py) and the   *)
(* key-repeat coordinator of KetronKeyMappingControl                       *)
(* (devdeck/ketron/controls/ketron_key_mapping_control.py).                *)
(*                                                                         *)
(* The specifications share the manager state:                             *)
(*   SpecVol    - the manager's API called sequentially;                   *)
(*   SpecConc   - several threads inside increment_style at once, with the *)
(*                steps at which the code takes and drops _volume_lock;    *)
(*   SpecRepeat - key presses and releases on the Volume Up / Volume Down  *)
(*                controls with their background repeat threads;           *)
(*   FairSpecRepeat - SpecRepeat with the repeat threads scheduled.        *)
(*   SpecKeys   - presses of the keys of the CC namespace and the calls    *)
(*                the Volume Up / Volume Down / Mute keys make;            *)
(*   SpecSysex  - the SysEx encoders of the pedal and tab catalogues;      *)
(*   SpecCC     - MidiManager.send_cc called with arbitrary parameters;    *)
(*   SpecSend   - send_pedal_command / send_tab_command, message by        *)
(*                message;                                                 *)
(*   SpecLookup - _find_key_in_dict over the three catalogues;             *)
(*   SpecPress  - SpecRepeat with the Mute, pedal and tab keys and the     *)
(*                keys whose press is ignored;                             *)
(*   SpecCallback - key events travelling from the device callback         *)
(*                through the deck to the control, with exceptions;        *)
(*   SpecCache  - _load_key_mappings called from several threads while     *)
(*                the mapping file changes;                                *)
(*   SpecMix    - increment, decrement and mute of one register called     *)
(*                concurrently;                                            *)
(*   SpecReload - SpecRepeat while the mapping file is saved with another  *)
(*                table;                                                   *)
(*   SpecPages  - SpecRepeat with the navigation key switching the active  *)
(*                deck;                                                    *)
(*   SpecDispatch - keys of the CC namespace with any command name, and    *)
(*                the generic verbs.                                       *)
(***************************************************************************)
EXTENDS Integers, Sequences, FiniteSets, TLC

(***************************************************************************)
(* Bounds of the model.                                                    *)
(***************************************************************************)
\* number of manager API calls in a behaviour of SpecVol
MaxOps == 3
\* number of threads calling increment_style concurrently in SpecConc
MaxCallers == 3
\* number of key presses handled in a behaviour of SpecRepeat
MaxPresses == 2
\* number of increment/decrement calls the repeat threads start in a behaviour
MaxTicks == 2
\* number of repeat threads that exist at the same time
MaxThreads == 2
\* key events delivered to key_callback (SpecCallback)
MaxEvents == 3
\* threads inside _get_key_mapping at the same time (SpecCache)
MaxResolvers == 2
\* calls of _get_key_mapping
MaxLoads == 2
\* changes made to the key mapping files
MaxMods == 2

None == "None"
\* None where the value is otherwise an integer (a return value, a thread)
NoValue == -1
NoThread == 0

(***************************************************************************)
(* Command catalogue (CC namespace) and the manager's lookup table.        *)
(***************************************************************************)
MIN_VOLUME == 0
MAX_VOLUME == 127
RESTORE_VOLUME == 80
EXPRESSION_CC == 7

Registers ==
  {"lower", "voice1", "voice2", "drawbars", "style", "drum", "chord",
   "realchord", "bass", "master"}

cc_midis ==
  [n \in {"PLAYER", "STYLE", "DRUM", "CHORD", "REALCHORD", "BASS", "LOWERS",
          "USER2", "USER3", "VOICE1", "VOICE2", "DRAWBARS", "MICRO1", "VOCAL"} |->
     CASE n = "PLAYER"    -> 102
       [] n = "STYLE"     -> 103
       [] n = "DRUM"      -> 104
       [] n = "BASS"      -> 105
       [] n = "CHORD"     -> 106
       [] n = "REALCHORD" -> 107
       [] n = "LOWERS"    -> 108
       [] n = "USER2"     -> 109
       [] n = "USER3"     -> 110
       [] n = "VOICE1"    -> 114
       [] n = "VOICE2"    -> 115
       [] n = "DRAWBARS"  -> 116
       [] n = "MICRO1"    -> 117
       [] n = "VOCAL"     -> 118]

\* _key_name_to_volume, keys exactly as the dictionary literal has them
key_name_to_volume ==
  [n \in {"LOWERS", "VOICE1", "VOICE2", "DRAW ORGAN", "DRAWBARS", "STYLE",
          "Style", "DRUM", "Drums", "CHORD", "Chords", "REALCHORD",
          "REAL CHORD", "Real Chords", "BASS", "Bass", "MASTER VOLUME",
          "MASTER"} |->
     CASE n = "LOWERS" -> "lower"
       [] n = "VOICE1" -> "voice1"
       [] n = "VOICE2" -> "voice2"
       [] n \in {"DRAW ORGAN", "DRAWBARS"} -> "drawbars"
       [] n \in {"STYLE", "Style"} -> "style"
       [] n \in {"DRUM", "Drums"} -> "drum"
       [] n \in {"CHORD", "Chords"} -> "chord"
       [] n \in {"REALCHORD", "REAL CHORD", "Real Chords"} -> "realchord"
       [] n \in {"BASS", "Bass"} -> "bass"
       [] n \in {"MASTER VOLUME", "MASTER"} -> "master"]

\* str.upper() on the names the model uses: the mixed-case names are listed,
\* every other name of the model is already upper case
MixedCase ==
  {<<"Style", "STYLE">>, <<"Drums", "DRUMS">>, <<"Chords", "CHORDS">>,
   <<"Real Chords", "REAL CHORDS">>, <<"Bass", "BASS">>,
   <<"Master Volume", "MASTER VOLUME">>, <<"Volume Up", "VOLUME UP">>,
   <<"Volume Down", "VOLUME DOWN">>, <<"Mute", "MUTE">>,
   <<"Voice1", "VOICE1">>, <<"Lowers", "LOWERS">>,
   <<"start/stop", "START/STOP">>, <<"Variation", "VARIATION">>,
   <<"No Such Command", "NO SUCH COMMAND">>, <<" ", " ">>}

Upper(s) ==
  IF \E p \in MixedCase : p[1] = s
  THEN (CHOOSE p \in MixedCase : p[1] = s)[2]
  ELSE s

\* str.lower() on the names the model uses: every catalogue key and every
\* mixed-case or upper-case name of the model is listed with its lower-case
\* form; a name that is not listed is already lower case
lower_case ==
  "Sustain" :> "sustain" @@ "Soft" :> "soft" @@ "Sostenuto" :> "sostenuto" @@
  "Arr.A" :> "arr.a" @@ "Arr.B" :> "arr.b" @@ "Arr.C" :> "arr.c" @@
  "Arr.D" :> "arr.d" @@ "Fill1" :> "fill1" @@ "Fill2" :> "fill2" @@
  "Fill3" :> "fill3" @@ "Fill4" :> "fill4" @@ "Break1" :> "break1" @@
  "Break2" :> "break2" @@ "Break3" :> "break3" @@ "Break4" :> "break4" @@
  "Intro/End1" :> "intro/end1" @@ "Intro/End2" :> "intro/end2" @@
  "Intro/End3" :> "intro/end3" @@ "Start/Stop" :> "start/stop" @@
  "Tempo Up" :> "tempo up" @@ "Tempo Down" :> "tempo down" @@
  "Fill" :> "fill" @@ "Break" :> "break" @@ "To End" :> "to end" @@
  "Bass to Lowest" :> "bass to lowest" @@ "Bass to Root" :> "bass to root" @@
  "Live Bass" :> "live bass" @@ "Acc.BassToChord" :> "acc.basstochord" @@
  "Manual Bass" :> "manual bass" @@ "Voice Lock Bass" :> "voice lock bass" @@
  "Bass Mono/Poly" :> "bass mono/poly" @@ "Dial Down" :> "dial down" @@
  "Dial Up" :> "dial up" @@ "Auto Fill" :> "auto fill" @@
  "Fill to Arr." :> "fill to arr." @@ "After Fill" :> "after fill" @@
  "Low. Hold Start" :> "low. hold start" @@
  "Low. Hold Stop" :> "low. hold stop" @@
  "Low. Hold Break" :> "low. hold break" @@
  "Low. Stop Mute" :> "low. stop mute" @@ "Low. Mute" :> "low. mute" @@
  "Low. and Bass" :> "low. and bass" @@
  "Low. Voice Lock" :> "low. voice lock" @@ "Pianist" :> "pianist" @@
  "Pianist Auto/Stand." :> "pianist auto/stand." @@
  "Pianist Sustain" :> "pianist sustain" @@ "Bassist" :> "bassist" @@
  "Bassist Easy/Exp." :> "bassist easy/exp." @@ "Key Start" :> "key start" @@
  "Key Stop" :> "key stop" @@ "Enter" :> "enter" @@ "Exit" :> "exit" @@
  "Registration" :> "registration" @@ "Fade" :> "fade" @@
  "Harmony" :> "harmony" @@ "Octave Up" :> "octave up" @@
  "Octave Down" :> "octave down" @@ "RestartCount In" :> "restartcount in" @@
  "Micro1 On/Off" :> "micro1 on/off" @@ "Micro1 Down" :> "micro1 down" @@
  "Micro1 Up" :> "micro1 up" @@ "Voicetr.On/Off" :> "voicetr.on/off" @@
  "Voicetr.Down" :> "voicetr.down" @@ "Voicetr.Up" :> "voicetr.up" @@
  "Micro2 On/Off" :> "micro2 on/off" @@ "EFX1 On/Off" :> "efx1 on/off" @@
  "EFX2 On/Off" :> "efx2 on/off" @@ "Arabic.Set1" :> "arabic.set1" @@
  "Arabic.Set2" :> "arabic.set2" @@ "Arabic.Set3" :> "arabic.set3" @@
  "Arabic.Set4" :> "arabic.set4" @@ "Dry On Stop" :> "dry on stop" @@
  "Pdf Page Down" :> "pdf page down" @@ "Pdf Page Up" :> "pdf page up" @@
  "Pdf Scroll Down" :> "pdf scroll down" @@
  "Pdf Scroll Up" :> "pdf scroll up" @@ "Glide Down" :> "glide down" @@
  "Lead Mute" :> "lead mute" @@ "Expr. Left/Style" :> "expr. left/style" @@
  "Arabic Reset" :> "arabic reset" @@ "Hold" :> "hold" @@
  "2nd On/Off" :> "2nd on/off" @@ "Pause" :> "pause" @@
  "Talk On/Off" :> "talk on/off" @@ "Manual Drum" :> "manual drum" @@
  "Kick Off" :> "kick off" @@ "Snare Off" :> "snare off" @@
  "Rimshot Off" :> "rimshot off" @@ "Hit-Hat Off" :> "hit-hat off" @@
  "Cymbal Off" :> "cymbal off" @@ "Tom Off" :> "tom off" @@
  "Latin1 Off" :> "latin1 off" @@ "Latin2 Off" :> "latin2 off" @@
  "Latin3/Tamb Off" :> "latin3/tamb off" @@ "Clap/fx Off" :> "clap/fx off" @@
  "Voice Down" :> "voice down" @@ "Voice Up" :> "voice up" @@
  "Regis Down" :> "regis down" @@ "Regis Up" :> "regis up" @@
  "Style Voice Down" :> "style voice down" @@
  "Style Voice Up" :> "style voice up" @@
  "EFX1 Preset Down" :> "efx1 preset down" @@
  "EFX1 Preset Up" :> "efx1 preset up" @@ "Multi" :> "multi" @@
  "Page<<" :> "page<<" @@ "Page>>" :> "page>>" @@
  "RegisVoice<<" :> "regisvoice<<" @@ "RegisVoice>>" :> "regisvoice>>" @@
  "Text Page" :> "text page" @@ "Text Page+" :> "text page+" @@
  "Style Voice 1" :> "style voice 1" @@ "Style Voice 2" :> "style voice 2" @@
  "Style Voice 3" :> "style voice 3" @@ "Style Voice 4" :> "style voice 4" @@
  "VIEW & MODELING" :> "view & modeling" @@ "Lock Bass" :> "lock bass" @@
  "LockChord" :> "lockchord" @@ "Lyrics" :> "lyrics" @@
  "VoiceToABCD" :> "voicetoabcd" @@ "TAP" :> "tap" @@
  "Autocrash" :> "autocrash" @@ "Transp Down" :> "transp down" @@
  "Transp Up" :> "transp up" @@ "Text Record" :> "text record" @@
  "Bass & Drum" :> "bass & drum" @@ "Pdf Clear" :> "pdf clear" @@
  "Record" :> "record" @@ "Play" :> "play" @@ "DoubleDown" :> "doubledown" @@
  "DoubleUp" :> "doubleup" @@ "Arr.Off" :> "arr.off" @@
  "FILL & DRUM IN" :> "fill & drum in" @@ "Wah to Pedal" :> "wah to pedal" @@
  "Overdrive to Pedal" :> "overdrive to pedal" @@
  "Drum Mute" :> "drum mute" @@ "Bass Mute" :> "bass mute" @@
  "Chords Mute" :> "chords mute" @@
  "Real Chords Mute" :> "real chords mute" @@
  "Voice2 to Pedal" :> "voice2 to pedal" @@ "Micro Edit" :> "micro edit" @@
  "Micro2 Edit" :> "micro2 edit" @@ "HALF BAR" :> "half bar" @@
  "Bs Sust Pedal" :> "bs sust pedal" @@ "Scale" :> "scale" @@
  "End Swap" :> "end swap" @@ "Set Down" :> "set down" @@
  "Set Up" :> "set up" @@ "FswChDelay" :> "fswchdelay" @@
  "IntroOnArr." :> "introonarr." @@ "EndingOnArr." :> "endingonarr." @@
  "Arr. Down" :> "arr. down" @@ "Arr. Up" :> "arr. up" @@
  "Ending1" :> "ending1" @@ "Ending2" :> "ending2" @@
  "Ending3" :> "ending3" @@ "Bass Lock" :> "bass lock" @@
  "Intro Loop" :> "intro loop" @@ "Scene Down" :> "scene down" @@
  "Scene Up" :> "scene up" @@ "STEM Scene A" :> "stem scene a" @@
  "STEM Scene B" :> "stem scene b" @@ "STEM Scene C" :> "stem scene c" @@
  "STEM Scene D" :> "stem scene d" @@ "STEM Solo" :> "stem solo" @@
  "STEM Autoplay" :> "stem autoplay" @@ "STEM A On/Off" :> "stem a on/off" @@
  "STEM B On/Off" :> "stem b on/off" @@ "STEM C On/Off" :> "stem c on/off" @@
  "STEM D On/Off" :> "stem d on/off" @@
  "STEM Lead On/Off" :> "stem lead on/off" @@
  "Art. Toggle" :> "art. toggle" @@ "Key Tune On/Off" :> "key tune on/off" @@
  "Txt Clear" :> "txt clear" @@ "Voicetr. Edit" :> "voicetr. edit" @@
  "Clear Image" :> "clear image" @@ "DIAL_DOWN" :> "dial_down" @@
  "DIAL_UP" :> "dial_up" @@ "PLAYER_A" :> "player_a" @@
  "PLAYER_B" :> "player_b" @@ "ENTER" :> "enter" @@ "MENU" :> "menu" @@
  "LYRIC" :> "lyric" @@ "LEAD" :> "lead" @@ "VARIATION" :> "variation" @@
  "DRAWBARS_VIEW" :> "drawbars_view" @@ "DRAWBARS" :> "drawbars" @@
  "DRUMSET" :> "drumset" @@ "TALK" :> "talk" @@ "VOICETRON" :> "voicetron" @@
  "STYLE_BOX" :> "style_box" @@ "VOICE1" :> "voice1" @@
  "VOICE2" :> "voice2" @@ "USER_VOICE" :> "user_voice" @@
  "XFADE" :> "xfade" @@ "INTRO1" :> "intro1" @@ "INTRO2" :> "intro2" @@
  "INTRO3" :> "intro3" @@ "BASSIST" :> "bassist" @@
  "DRUM_MIXER" :> "drum_mixer" @@ "OCTAVE_UP" :> "octave_up" @@
  "OCTAVE_DOWN" :> "octave_down" @@ "USER_STYLE" :> "user_style" @@
  "DSP" :> "dsp" @@ "ADSR_FILTER" :> "adsr_filter" @@ "MICRO" :> "micro" @@
  "ARRA" :> "arra" @@ "ARRB" :> "arrb" @@ "ARRC" :> "arrc" @@
  "ARRD" :> "arrd" @@ "FILL" :> "fill" @@ "BREAK" :> "break" @@
  "JUKE_BOX" :> "juke_box" @@ "STEM" :> "stem" @@ "PIANIST" :> "pianist" @@
  "BASS_TO_LOWEST" :> "bass_to_lowest" @@ "MANUAL_BASS" :> "manual_bass" @@
  "PORTAMENTO" :> "portamento" @@ "HARMONY" :> "harmony" @@
  "PAUSE" :> "pause" @@ "TEMPO_SLOW" :> "tempo_slow" @@
  "TEMPO_FAST" :> "tempo_fast" @@ "START_STOP" :> "start_stop" @@
  "TRANSP_DOWN" :> "transp_down" @@ "TRANSP_UP" :> "transp_up" @@
  "AFTERTOUCH" :> "aftertouch" @@ "EXIT" :> "exit" @@
  "ROTOR_SLOW" :> "rotor_slow" @@ "ROTOR_FAST" :> "rotor_fast" @@
  "PIANO_FAM" :> "piano_fam" @@ "ETHNIC_FAM" :> "ethnic_fam" @@
  "ORGAN_FAM" :> "organ_fam" @@ "GUITAR_FAM" :> "guitar_fam" @@
  "BASS_FAM" :> "bass_fam" @@ "STRING_FAM" :> "string_fam" @@
  "BRASS_FAM" :> "brass_fam" @@ "SAX_FAM" :> "sax_fam" @@ "HOLD" :> "hold" @@
  "PAD_FAM" :> "pad_fam" @@ "SYNTH_FAM" :> "synth_fam" @@
  "FADEOUT" :> "fadeout" @@ "BASS_TO_ROOT" :> "bass_to_root" @@
  "GM" :> "gm" @@ "PLAYER" :> "player" @@ "STYLE" :> "style" @@
  "DRUM" :> "drum" @@ "CHORD" :> "chord" @@ "REALCHORD" :> "realchord" @@
  "BASS" :> "bass" @@ "LOWERS" :> "lowers" @@ "USER2" :> "user2" @@
  "USER3" :> "user3" @@ "MICRO1" :> "micro1" @@ "VOCAL" :> "vocal" @@
  "Bass" :> "bass" @@ "CHORDS" :> "chords" @@ "Chords" :> "chords" @@
  "DRAW ORGAN" :> "draw organ" @@ "DRUMS" :> "drums" @@ "Drums" :> "drums" @@
  "Lowers" :> "lowers" @@ "MASTER" :> "master" @@
  "MASTER VOLUME" :> "master volume" @@ "MUTE" :> "mute" @@
  "Master Volume" :> "master volume" @@ "Mute" :> "mute" @@
  "No Such Command" :> "no such command" @@ "REAL CHORD" :> "real chord" @@
  "REAL CHORDS" :> "real chords" @@ "Real Chords" :> "real chords" @@
  "Style" :> "style" @@ "VOLUME DOWN" :> "volume down" @@
  "VOLUME UP" :> "volume up" @@ "Voice1" :> "voice1" @@
  "Volume Down" :> "volume down" @@ "Volume Up" :> "volume up" @@
  "Variation" :> "variation"

Lower(s) == IF s \in DOMAIN lower_case THEN lower_case[s] ELSE s

\* the values given to set_last_pressed_key_name in the model
LastNames ==
  {None, "", "Style", "LOWERS", "VOICE1", "VOICE2", "DRAWBARS", "DRUM",
   "CHORD", "REALCHORD", "BASS", "MASTER VOLUME", "PLAYER"}

\* the registers whose increment_/decrement_/mute_ methods and set_volume the
\* model calls by name; every register is reached through the
\* *_last_pressed_volume dispatch
ApiRegisters == {"lower", "master"}
Amounts == {10, -200}
\* the default amount of the *_last_pressed_volume methods
DEFAULT_AMOUNT == 1
SetValues == {-5, 125, 300}
Channels == {-3, 5, 40}

VARIABLES
  \* KetronVolumeManager
  vol,        \* the ten registers _lower .. _master
  last,       \* _last_pressed_key_name
  chan,       \* _midi_out_channel
  out,        \* the send_cc call of the last step and its outcome, or NoMsg
  port,       \* TRUE when the MIDI port is open and port.send succeeds
  \* caller of the sequential API
  ret,        \* value returned by the last API call
  ops,        \* number of API calls made
  op1,        \* the last API call: kind, register, register value before it
  op2,        \* the API call before it
  \* threads inside increment_style (SpecConc)
  cpc,        \* position of each caller: idle, got, set, done
  cval,       \* its local: current, then new_value
  start,      \* the register's value when the callers start
  \* KetronKeyMappingControl, one per key (SpecRepeat)
  mapping,    \* key_mappings.json as _get_key_mapping returns it
  down,       \* the physical key is held down
  hpc,        \* position of the key callback running pressed() / released()
  hcall,      \* locals of the callback's increment/decrement call
  held,       \* _volume_key_held
  ktype,      \* _volume_key_type
  stop,       \* _volume_key_repeat_stop (threading.Event)
  tref,       \* _volume_key_repeat_thread
  threads,    \* the repeat threads (_start_volume_key_repeat)
  presses,    \* number of key presses handled
  seq,        \* the ordinal of the last press of each key
  ticks,      \* number of calls started by the repeat threads
  sync,       \* increments/decrements made by pressed() itself, last press
  rep,        \* ... made by the key's repeat threads since its last press
  early,      \* the last press was released before its delay had elapsed
  \* the encoders called on their own (SpecSysex, SpecCC)
  ecall,      \* the call: the function and its arguments
  edata,      \* what the call produced: the payload or message bytes
  \* send_pedal_command / send_tab_command (SpecSend)
  epc,        \* position in the call: start, on, off, done
  wire,       \* the SysEx payloads port.send has accepted, in order
  eres,       \* the value the call returned, "pending" before
  \* DeckManager.key_callback and the deck it calls (SpecCallback)
  kpc,        \* position of the callback: idle, deck, control, handler, caught
  kev,        \* the event it handles: the key and pressed / released
  events,     \* number of key events delivered
  failures,   \* number of exceptions the deck has caught and logged
  escaped,    \* an exception has left key_callback
  \* KetronKeyMappingControl._load_key_mappings and its callers (SpecCache)
  files,      \* the key mapping files: state and content version of each
  ccache,     \* _key_mappings_cache
  cfile,      \* _key_mappings_file
  cmtime,     \* _key_mappings_mtime
  cwho,       \* the load that wrote each of the three fields
  rs,         \* the threads inside _get_key_mapping: position and locals
  loads,      \* number of _get_key_mapping calls started
  mods,       \* number of changes made to the files
  \* concurrent calls of the *_last_pressed_volume methods (SpecMix)
  ckind,      \* the method each caller calls
  \* DeckManager (SpecPages)
  decks       \* the stack of decks; the last one is the active deck

mgrVars == <<vol, last, chan, out, port>>
seqVars == <<ret, ops, op1, op2>>
concVars == <<cpc, cval, start>>
repVars == <<mapping, down, hpc, hcall, held, ktype, stop, tref, threads,
             presses, seq, ticks, sync, rep, early>>
encVars == <<ecall, edata>>
sendVars == <<epc, wire, eres>>
cbVars == <<kpc, kev, events, failures, escaped>>
cacheVars == <<files, ccache, cfile, cmtime, cwho, rs, loads, mods>>
mixVars == <<ckind>>
navVars == <<decks>>
\* the variables of the callback path, of the key mapping cache, of the
\* mixed concurrent calls and of the deck stack
auxVars == <<cbVars, cacheVars, mixVars, navVars>>
\* the variables the manager and the key controls leave alone
sideVars == <<encVars, sendVars, auxVars>>
vars == <<vol, last, chan, out, port, ret, ops, op1, op2, cpc, cval, start,
          mapping, down, hpc, hcall, held, ktype, stop, tref, threads,
          presses, seq, ticks, sync, rep, early, ecall, edata, epc, wire,
          eres, kpc, kev, events, failures, escaped, files, ccache, cfile,
          cmtime, cwho, rs, loads, mods, ckind, decks>>

\* no call of send_cc
NoMsg == [control |-> -1, value |-> -1, channel |-> -1, status |-> "none"]
NoOp == [kind |-> "none", reg |-> None, before |-> -1]
NoEnc == [fn |-> "none"]
\* no key event yet
NoEvent == [key |-> None, state |-> FALSE]
\* None where a table (a loaded mappings dictionary) is expected
NoTable == [path |-> None, ver |-> -1]
\* Python values whose equality depends on their type: None, a str and a
\* pathlib.Path; a Path is never equal to a str
NoneObj == [kind |-> "NoneType", name |-> None]
Str(n) == [kind |-> "str", name |-> n]
PathOf(n) == [kind |-> "Path", name |-> n]
\* no result yet
NoData == [error |-> "pending", data |-> <<>>]

(***************************************************************************)
(* KetronVolumeManager: helpers.                                           *)
(***************************************************************************)
Max(a, b) == IF a > b THEN a ELSE b
Min(a, b) == IF a < b THEN a ELSE b

\* variant without the upper limit
clamp_volume_unbounded(value) == Max(MIN_VOLUME, value)

\* _clamp_volume
clamp_volume(value) == Max(MIN_VOLUME, Min(MAX_VOLUME, value))

\* _clamp_channel
clamp_channel(value) == Max(1, Min(16, value))

\* Python truthiness of an Optional[str]
Truthy(s) == s /= None /\ s /= ""

\* _key_name_to_volume.get(key_name.upper())
VolumeNameOf(key_name) ==
  IF Truthy(key_name) /\ Upper(key_name) \in DOMAIN key_name_to_volume
  THEN key_name_to_volume[Upper(key_name)]
  ELSE None

\* the case-insensitive search of cc_midis in _send_midi_cc_for_volume
MatchedCCKey(key_name) ==
  IF \E k \in DOMAIN cc_midis : Upper(k) = Upper(key_name)
  THEN CHOOSE k \in DOMAIN cc_midis : Upper(k) = Upper(key_name)
  ELSE None

\* variant of send_cc that clamps an out-of-range parameter into its range
send_cc_clamping(control, value, channel, transport) ==
  [control |-> Max(0, Min(127, control)), value |-> Max(0, Min(127, value)),
   channel |-> Max(0, Min(15, channel)),
   status |-> IF transport THEN "sent" ELSE "failed"]

\* MidiManager.send_cc: the parameters are validated (an invalid one is
\* rejected, nothing is clamped), then the message goes to the port; transport
\* is TRUE when the port is open and port.send does not raise
send_cc(control, value, channel, transport) ==
  [control |-> control, value |-> value, channel |-> channel,
   status |-> IF ~(control \in 0..127 /\ value \in 0..127 /\ channel \in 0..15)
              THEN "rejected"
              ELSE IF transport THEN "sent" ELSE "failed"]

\* _send_midi_cc_for_volume: the control number is the one of the last
\* pressed key, the channel the configured output channel
send_midi_cc_for_volume(volume_name, volume_value, key_name, channel, transport) ==
  IF ~Truthy(key_name) THEN NoMsg
  ELSE IF MatchedCCKey(key_name) = None THEN NoMsg
  ELSE send_cc(cc_midis[MatchedCCKey(key_name)], volume_value, channel - 1, transport)

\* variant that always sends on channel 16
send_master_expression_cc_ch16(volume_value, channel, transport) ==
  send_cc(EXPRESSION_CC, volume_value, 15, transport)

\* _send_master_expression_cc
send_master_expression_cc(volume_value, channel, transport) ==
  send_cc(EXPRESSION_CC, volume_value, channel - 1, transport)

\* the emission of a register change: Expression CC for master
Emit(volume_name, volume_value, key_name, channel, transport) ==
  IF volume_name = "master"
  THEN send_master_expression_cc(volume_value, channel, transport)
  ELSE send_midi_cc_for_volume(volume_name, volume_value, key_name, channel, transport)

(***************************************************************************)
(* KetronVolumeManager: the API, one call per action (SpecVol).            *)
(***************************************************************************)
Record(kind, r) ==
  /\ ops < MaxOps
  /\ ops' = ops + 1
  /\ op1' = [kind |-> kind, reg |-> r, before |-> IF r = None THEN -1 ELSE vol[r]]
  /\ op2' = op1
  /\ UNCHANGED <<port, concVars, repVars, sideVars>>

\* increment_<register>(amount)
increment_value(current, amount) == clamp_volume(current + amount)

\* decrement_<register>(amount)
decrement_value(current, amount) == clamp_volume(current - amount)

\* variant that restores the maximum instead of 80
toggle_value_max(current_volume) == IF current_volume = 0 THEN MAX_VOLUME ELSE 0

\* toggle_mute_last_pressed_volume: the value written
toggle_value(current_volume) == IF current_volume = 0 THEN RESTORE_VOLUME ELSE 0

\* variant that keeps the old register value when the message was not sent
Increment_rollback(r, amount) ==
  /\ Record("increment", r)
  /\ vol' = IF Emit(r, increment_value(vol[r], amount), last, chan, port).status = "sent"
            THEN [vol EXCEPT ![r] = clamp_volume(increment_value(vol[r], amount))]
            ELSE vol
  /\ out' = Emit(r, increment_value(vol[r], amount), last, chan, port)
  /\ ret' = increment_value(vol[r], amount)
  /\ UNCHANGED <<last, chan>>

Increment(r, amount) ==
  /\ Record("increment", r)
  /\ vol' = [vol EXCEPT ![r] = clamp_volume(increment_value(vol[r], amount))]
  /\ out' = Emit(r, increment_value(vol[r], amount), last, chan, port)
  /\ ret' = increment_value(vol[r], amount)
  /\ UNCHANGED <<last, chan>>

\* variant whose write also lowers the style register
Decrement_spill(r, amount) ==
  /\ Record("decrement", r)
  /\ vol' = [vol EXCEPT ![r] = clamp_volume(decrement_value(vol[r], amount)),
                        !["style"] = IF r = "style"
                                     THEN clamp_volume(decrement_value(vol[r], amount))
                                     ELSE clamp_volume(vol["style"] - 1)]
  /\ out' = Emit(r, decrement_value(vol[r], amount), last, chan, port)
  /\ ret' = decrement_value(vol[r], amount)
  /\ UNCHANGED <<last, chan>>

Decrement(r, amount) ==
  /\ Record("decrement", r)
  /\ vol' = [vol EXCEPT ![r] = clamp_volume(decrement_value(vol[r], amount))]
  /\ out' = Emit(r, decrement_value(vol[r], amount), last, chan, port)
  /\ ret' = decrement_value(vol[r], amount)
  /\ UNCHANGED <<last, chan>>

\* variant that restores the register when it is already muted
Mute_restores(r) ==
  /\ Record("mute", r)
  /\ vol' = [vol EXCEPT ![r] = clamp_volume(toggle_value(vol[r]))]
  /\ out' = Emit(r, toggle_value(vol[r]), last, chan, port)
  /\ ret' = toggle_value(vol[r])
  /\ UNCHANGED <<last, chan>>

\* mute_<register>()
Mute(r) ==
  /\ Record("mute", r)
  /\ vol' = [vol EXCEPT ![r] = clamp_volume(0)]
  /\ out' = Emit(r, 0, last, chan, port)
  /\ ret' = 0
  /\ UNCHANGED <<last, chan>>

\* set_volume(volume_name, value): no message is sent
SetVolume(r, value) ==
  /\ Record("set", r)
  /\ vol' = [vol EXCEPT ![r] = clamp_volume(value)]
  /\ out' = NoMsg
  /\ ret' = clamp_volume(value)
  /\ UNCHANGED <<last, chan>>

\* set_last_pressed_key_name(key_name)
SetLastPressedKeyName(key_name) ==
  /\ Record("set_last", None)
  /\ last' = key_name
  /\ out' = NoMsg
  /\ ret' = NoValue
  /\ UNCHANGED <<vol, chan>>

\* set_midi_out_channel(channel)
SetMidiOutChannel(channel) ==
  /\ Record("set_channel", None)
  /\ chan' = clamp_channel(channel)
  /\ out' = NoMsg
  /\ ret' = clamp_channel(channel)
  /\ UNCHANGED <<vol, last>>

\* variant that falls back to the style register when no register is found
NoTarget_style(kind) ==
  /\ VolumeNameOf(last) = None
  /\ Record(kind, None)
  /\ vol' = [vol EXCEPT !["style"] = clamp_volume(vol["style"] + 1)]
  /\ out' = NoMsg
  /\ ret' = clamp_volume(vol["style"] + 1)
  /\ UNCHANGED <<last, chan>>

\* a *_last_pressed_volume call that finds no register
NoTarget(kind) ==
  /\ VolumeNameOf(last) = None
  /\ Record(kind, None)
  /\ out' = NoMsg
  /\ ret' = NoValue
  /\ UNCHANGED <<vol, last, chan>>

\* increment_last_pressed_volume(amount)
IncrementLastPressedVolume(amount) ==
  \/ NoTarget("increment_last")
  \/ /\ VolumeNameOf(last) /= None
     /\ Increment(VolumeNameOf(last), amount)

\* decrement_last_pressed_volume(amount)
DecrementLastPressedVolume(amount) ==
  \/ NoTarget("decrement_last")
  \/ /\ VolumeNameOf(last) /= None
     /\ Decrement(VolumeNameOf(last), amount)

\* toggle_mute_last_pressed_volume()
ToggleMuteLastPressedVolume ==
  \/ NoTarget("toggle_last")
  \/ /\ VolumeNameOf(last) /= None
     /\ LET r == VolumeNameOf(last)
            new_volume == toggle_value(vol[r])
        IN /\ Record("toggle", r)
           /\ vol' = [vol EXCEPT ![r] = clamp_volume(new_volume)]
           /\ out' = Emit(r, new_volume, last, chan, port)
           /\ ret' = new_volume
           /\ UNCHANGED <<last, chan>>

(***************************************************************************)
(* Concurrent callers of increment_style (SpecConc).  The method reads the *)
(* register under _volume_lock (_get_volume), drops the lock, and takes it *)
(* again to write (_set_volume); the send follows outside the lock.        *)
(***************************************************************************)
Callers == 1..MaxCallers

\* the values the register holds when the callers start (80 after
\* construction, 126 after set_volume("style", 126))
StartValues == {80, 126}

\* current = self._get_volume("style")
GetVolume(p) ==
  /\ cpc[p] = "idle"
  /\ cpc' = [cpc EXCEPT ![p] = "got"]
  /\ cval' = [cval EXCEPT ![p] = vol["style"]]
  /\ out' = NoMsg
  /\ UNCHANGED <<vol, last, chan, port, start, seqVars, repVars, sideVars>>

\* new_value = self._clamp_volume(current + amount); self._set_volume(...)
SetVolumeStep(p) ==
  /\ cpc[p] = "got"
  /\ cpc' = [cpc EXCEPT ![p] = "set"]
  /\ cval' = [cval EXCEPT ![p] = increment_value(cval[p], 1)]
  /\ vol' = [vol EXCEPT !["style"] = clamp_volume(increment_value(cval[p], 1))]
  /\ out' = NoMsg
  /\ UNCHANGED <<last, chan, port, start, seqVars, repVars, sideVars>>

\* self._send_midi_cc_for_volume("style", new_value, port_name); return
SendStep(p) ==
  /\ cpc[p] = "set"
  /\ cpc' = [cpc EXCEPT ![p] = "done"]
  /\ out' = Emit("style", cval[p], last, chan, port)
  /\ UNCHANGED <<vol, last, chan, port, cval, start, seqVars, repVars, sideVars>>

(***************************************************************************)
(* Concurrent callers of increment_last_pressed_volume,                    *)
(* decrement_last_pressed_volume and toggle_mute_last_pressed_volume with  *)
(* the pointer at "Style" (SpecMix): each method reads the register with   *)
(* _get_volume, computes the new value, writes it with _set_volume and     *)
(* sends; the lock is held inside _get_volume and _set_volume only.        *)
(***************************************************************************)
CallKinds == {"increment", "decrement", "toggle"}

\* the value a method writes and returns, from the value it read
NewValue(kind, current) ==
  CASE kind = "increment" -> increment_value(current, DEFAULT_AMOUNT)
    [] kind = "decrement" -> decrement_value(current, DEFAULT_AMOUNT)
    [] kind = "toggle"    -> toggle_value(current)

\* current = self._get_volume(volume_name)
CallGet(p) ==
  /\ cpc[p] = "idle"
  /\ cpc' = [cpc EXCEPT ![p] = "got"]
  /\ cval' = [cval EXCEPT ![p] = vol["style"]]
  /\ out' = NoMsg
  /\ UNCHANGED <<vol, last, chan, port, start, seqVars, repVars, sideVars>>

\* self._set_volume(volume_name, new_volume)
CallSet(p) ==
  /\ cpc[p] = "got"
  /\ cpc' = [cpc EXCEPT ![p] = "set"]
  /\ cval' = [cval EXCEPT ![p] = NewValue(ckind[p], cval[p])]
  /\ vol' = [vol EXCEPT !["style"] = clamp_volume(NewValue(ckind[p], cval[p]))]
  /\ out' = NoMsg
  /\ UNCHANGED <<last, chan, port, start, seqVars, repVars, sideVars>>

\* self._send_midi_cc_for_volume(volume_name, new_volume, port_name);
\* return new_volume
CallSend(p) ==
  /\ cpc[p] = "set"
  /\ cpc' = [cpc EXCEPT ![p] = "done"]
  /\ out' = Emit("style", cval[p], last, chan, port)
  /\ UNCHANGED <<vol, last, chan, port, cval, start, seqVars, repVars, sideVars>>

(***************************************************************************)
(* KetronKeyMappingControl: the key-repeat coordinator (SpecRepeat).       *)
(*                                                                         *)
(* Every control owns its repeat state (__init__, lines 63-69).  The deck  *)
(* delivers the key events to DeckManager.key_callback one after the       *)
(* other, so one pressed() or released() runs at a time; the repeat        *)
(* threads run beside it.  The blocks the code runs under                  *)
(* _volume_key_repeat_lock are atomic steps.                               *)
(*                                                                         *)
(* Time: a wait on the stop event returns True when the event is set while *)
(* the thread waits, and otherwise times out at any later moment.          *)
(* join(timeout=0.5) returns when the thread has ended; it runs into its   *)
(* timeout only while the thread is inside the increment/decrement call,   *)
(* the one place where the thread blocks (_volume_lock, MIDI port).        *)
(***************************************************************************)
VolumeControls == {"kUp", "kDown"}
SelectControls == {"kVoice", "kPlayer"}
Controls == VolumeControls \cup SelectControls
\* the Mute key, a pedal key and a tab key
MuteControls == {"kMute"}
CommandControls == {"kPedal", "kTab"}
\* keys whose entry is missing, has an empty or blank name, names a source
\* list that does not exist, or names a command its source list does not have
BrokenControls ==
  {"kNoEntry", "kEmpty", "kBlank", "kBadSource", "kBadPedal", "kBadTab",
   "kBadCC"}
AllControls ==
  Controls \cup MuteControls \cup CommandControls \cup BrokenControls

\* content of key_mappings.json in the model; "kNoEntry" has no entry
key_mappings ==
  [c \in AllControls \ {"kNoEntry"} |->
     CASE c = "kUp"     -> [key_name |-> "Volume Up", source_list_name |-> "cc_midis"]
       [] c = "kDown"   -> [key_name |-> "VOLUME DOWN", source_list_name |-> "cc_midis"]
       [] c = "kVoice"  -> [key_name |-> "Voice1", source_list_name |-> "cc_midis"]
       [] c = "kPlayer" -> [key_name |-> "PLAYER", source_list_name |-> "cc_midis"]
       [] c = "kMute"   -> [key_name |-> "Mute", source_list_name |-> "cc_midis"]
       [] c = "kPedal"  -> [key_name |-> "start/stop", source_list_name |-> "pedal_midis"]
       [] c = "kTab"    -> [key_name |-> "Variation", source_list_name |-> "tab_midis"]
       [] c = "kEmpty"  -> [key_name |-> "", source_list_name |-> "cc_midis"]
       [] c = "kBlank"  -> [key_name |-> " ", source_list_name |-> "pedal_midis"]
       [] c = "kBadSource" -> [key_name |-> "PLAYER", source_list_name |-> "midi_cc"]
       [] c = "kBadPedal"  -> [key_name |-> "No Such Command", source_list_name |-> "pedal_midis"]
       [] c = "kBadTab"    -> [key_name |-> "No Such Command", source_list_name |-> "tab_midis"]
       [] c = "kBadCC"     -> [key_name |-> "No Such Command", source_list_name |-> "cc_midis"]]

Tids == 1..MaxThreads

\* a thread that has returned (or was never started)
DeadThread ==
  [ctl |-> None, pc |-> "dead", key_type |-> None, elapsed |-> FALSE,
   reg |-> None, val |-> 0, rel |-> "no"]

NoCall == [reg |-> None, val |-> 0]

Alive(t) == threads[t].pc /= "dead"
InCall(t) == threads[t].pc \in {"c_set", "c_send"}

\* no pressed() or released() is running
CallbackIdle == \A c \in VolumeControls : hpc[c] = "idle"

\* the verb of a mapping entry, as pressed() and released() test it
VerbOf(c) ==
  IF c \notin DOMAIN mapping THEN None
  ELSE CASE Upper(mapping[c].key_name) = "VOLUME UP"   -> "UP"
         [] Upper(mapping[c].key_name) = "VOLUME DOWN" -> "DOWN"
         [] OTHER -> None

\* variant without the case-insensitive pass
find_key_in_dict_exact(key_name, dictionary) ==
  IF key_name \in DOMAIN dictionary THEN key_name ELSE None

\* _find_key_in_dict(key_name, dictionary): exact match, then case-insensitive
find_key_in_dict(key_name, dictionary) ==
  IF key_name \in DOMAIN dictionary THEN key_name
  ELSE LET key_name_lower == Lower(key_name)
       IN IF \E dict_key \in DOMAIN dictionary : Lower(dict_key) = key_name_lower
          THEN CHOOSE dict_key \in DOMAIN dictionary : Lower(dict_key) = key_name_lower
          ELSE None

\* variant that leaves the flags and the event as they are
stop_flags_keep(c) ==
  UNCHANGED <<held, ktype, stop>>

\* variant that flips the held flag instead of resetting it
stop_flags_flip(c) ==
  /\ held' = [held EXCEPT ![c] = ~@]
  /\ ktype' = [ktype EXCEPT ![c] = None]
  /\ stop' = [stop EXCEPT ![c] = TRUE]

\* _stop_volume_key_repeat, up to the join: the flags are reset under the
\* lock and the event is set
stop_flags(c) ==
  /\ held' = [held EXCEPT ![c] = FALSE]
  /\ ktype' = [ktype EXCEPT ![c] = None]
  /\ stop' = [stop EXCEPT ![c] = TRUE]

\* the effect of stop.set() on the threads of the control: one that waits on
\* the event is woken, its wait returns True and it is about to return.
\* rel records that the stop came from released()
Woken(c, released) ==
  [t \in Tids |->
     IF threads[t].ctl = c /\ Alive(t)
     THEN [threads[t] EXCEPT
             !.pc = IF @ \in {"delay", "wait"} THEN "exit" ELSE @,
             !.rel = IF released THEN "signalled" ELSE @]
     ELSE threads[t]]

\* _stop_volume_key_repeat, the join: TRUE when join() returns because the
\* thread has ended (or there is none)
Joined(c) == IF tref[c] = NoThread THEN TRUE ELSE ~Alive(tref[c])

\* ... and when it returns because of the timeout
JoinTimedOut(c) == IF tref[c] = NoThread THEN FALSE ELSE InCall(tref[c])

\* pressed(), "VOLUME UP" / "VOLUME DOWN" branch: its first call of
\* _stop_volume_key_repeat
PressStop(c) ==
  /\ presses < MaxPresses
  /\ CallbackIdle /\ ~down[c]
  /\ VerbOf(c) /= None
  /\ \E t \in Tids : ~Alive(t)
  /\ presses' = presses + 1
  /\ seq' = [seq EXCEPT ![c] = presses + 1]
  /\ down' = [down EXCEPT ![c] = TRUE]
  /\ hpc' = [hpc EXCEPT ![c] = "p_join"]
  /\ stop_flags(c)
  /\ threads' = Woken(c, FALSE)
  /\ sync' = [sync EXCEPT ![c] = 0]
  /\ rep' = [rep EXCEPT ![c] = 0]
  /\ early' = [early EXCEPT ![c] = FALSE]
  /\ out' = NoMsg
  /\ UNCHANGED <<vol, last, chan, port, mapping, hcall, tref, ticks, seqVars, concVars, sideVars>>

\* variant of the thread that skips the initial delay and repeats at once
NewThread_nodelay(c) ==
  [ctl |-> c, pc |-> "wait", key_type |-> VerbOf(c), elapsed |-> FALSE,
   reg |-> None, val |-> 0, rel |-> "no"]

\* the thread pressed() creates and starts: it begins with the initial delay
NewThread(c) ==
  [ctl |-> c, pc |-> "delay", key_type |-> None, elapsed |-> FALSE,
   reg |-> None, val |-> 0, rel |-> "no"]

FreeTid == CHOOSE t \in Tids : ~Alive(t) /\ \A u \in Tids : ~Alive(u) => t <= u

\* pressed(): the join of the old thread ends, then held, type and the event
\* are set under the lock and the new thread is started
PressArm(c) ==
  /\ hpc[c] = "p_join"
  /\ Joined(c) \/ JoinTimedOut(c)
  /\ held' = [held EXCEPT ![c] = TRUE]
  /\ ktype' = [ktype EXCEPT ![c] = VerbOf(c)]
  /\ stop' = [stop EXCEPT ![c] = FALSE]
  /\ tref' = [tref EXCEPT ![c] = FreeTid]
  /\ threads' = [t \in Tids |->
                   IF t = FreeTid THEN NewThread(c)
                   ELSE IF threads[t].ctl = c /\ threads[t].rel /= "no"
                        THEN [threads[t] EXCEPT !.rel = "repressed"]
                        ELSE threads[t]]
  /\ hpc' = [hpc EXCEPT ![c] = "p_get"]
  /\ out' = NoMsg
  /\ UNCHANGED <<vol, last, chan, port, mapping, down, hcall, presses, seq, sync,
                 rep, early, ticks, seqVars, concVars, sideVars>>

\* the new value of an increment_last_pressed_volume (UP) or
\* decrement_last_pressed_volume (DOWN) call with amount 1
step_value(verb, current) ==
  IF verb = "UP" THEN increment_value(current, 1) ELSE decrement_value(current, 1)

\* pressed(): the immediate increment/decrement, its lookup of the target
\* register and _get_volume; without a target it returns None
PressGet(c) ==
  /\ hpc[c] = "p_get"
  /\ IF VolumeNameOf(last) = None
     THEN /\ hpc' = [hpc EXCEPT ![c] = "p_abort"]
          /\ UNCHANGED hcall
     ELSE /\ hpc' = [hpc EXCEPT ![c] = "p_set"]
          /\ hcall' = [hcall EXCEPT ![c] =
                         [reg |-> VolumeNameOf(last), val |-> vol[VolumeNameOf(last)]]]
  /\ out' = NoMsg
  /\ UNCHANGED <<vol, last, chan, port, mapping, down, held, ktype, stop, tref,
                 threads, presses, seq, sync, rep, early, ticks, seqVars, concVars, sideVars>>

\* ... its _set_volume
PressSet(c) ==
  /\ hpc[c] = "p_set"
  /\ LET new_value == step_value(VerbOf(c), hcall[c].val)
     IN /\ vol' = [vol EXCEPT ![hcall[c].reg] = clamp_volume(new_value)]
        /\ hcall' = [hcall EXCEPT ![c].val = new_value]
  /\ sync' = [sync EXCEPT ![c] = @ + 1]
  /\ hpc' = [hpc EXCEPT ![c] = "p_send"]
  /\ out' = NoMsg
  /\ UNCHANGED <<last, chan, port, mapping, down, held, ktype, stop, tref,
                 threads, presses, seq, rep, early, ticks, seqVars, concVars, sideVars>>

\* ... its send; pressed() returns
PressSend(c) ==
  /\ hpc[c] = "p_send"
  /\ out' = Emit(hcall[c].reg, hcall[c].val, last, chan, port)
  /\ hcall' = [hcall EXCEPT ![c] = NoCall]
  /\ hpc' = [hpc EXCEPT ![c] = "idle"]
  /\ UNCHANGED <<vol, last, chan, port, mapping, down, held, ktype, stop, tref,
                 threads, presses, seq, sync, rep, early, ticks, seqVars, concVars, sideVars>>

\* variant in which pressed() returns after the error without stopping the
\* session it has just started
PressAbort_return(c) ==
  /\ hpc[c] = "p_abort"
  /\ hpc' = [hpc EXCEPT ![c] = "idle"]
  /\ out' = NoMsg
  /\ UNCHANGED <<vol, last, chan, port, mapping, down, hcall, held, ktype, stop,
                 tref, threads, presses, seq, sync, rep, early, ticks, seqVars,
                 concVars, sideVars>>

\* pressed(): the call returned None, _stop_volume_key_repeat is called
PressAbort(c) ==
  /\ hpc[c] = "p_abort"
  /\ hpc' = [hpc EXCEPT ![c] = "a_join"]
  /\ stop_flags(c)
  /\ threads' = Woken(c, FALSE)
  /\ out' = NoMsg
  /\ UNCHANGED <<vol, last, chan, port, mapping, down, hcall, tref, presses, seq,
                 sync, rep, early, ticks, seqVars, concVars, sideVars>>

\* released() of a key mapped to Volume Up / Volume Down:
\* _stop_volume_key_repeat up to the join
ReleaseStop(c) ==
  /\ CallbackIdle /\ down[c]
  /\ VerbOf(c) /= None
  /\ down' = [down EXCEPT ![c] = FALSE]
  /\ hpc' = [hpc EXCEPT ![c] = "r_join"]
  /\ stop_flags(c)
  /\ threads' = Woken(c, TRUE)
  /\ early' = [early EXCEPT ![c] =
                 IF held[c] /\ tref[c] /= NoThread
                 THEN threads[tref[c]].pc = "delay"
                 ELSE FALSE]
  /\ out' = NoMsg
  /\ UNCHANGED <<vol, last, chan, port, mapping, hcall, tref, presses, seq, sync,
                 rep, ticks, seqVars, concVars, sideVars>>

\* the join of _stop_volume_key_repeat ends and the thread reference is
\* dropped; pressed() (abort) or released() returns
StopJoin(c) ==
  /\ hpc[c] \in {"a_join", "r_join"}
  /\ Joined(c) \/ JoinTimedOut(c)
  /\ tref' = [tref EXCEPT ![c] = NoThread]
  /\ threads' = [t \in Tids |->
                   IF hpc[c] = "r_join" /\ threads[t].ctl = c /\ Alive(t)
                      /\ threads[t].rel = "signalled"
                   THEN [threads[t] EXCEPT !.rel = "handled"]
                   ELSE threads[t]]
  /\ hpc' = [hpc EXCEPT ![c] = "idle"]
  /\ out' = NoMsg
  /\ UNCHANGED <<vol, last, chan, port, mapping, down, hcall, held, ktype,
                 stop, presses, seq, sync, rep, early, ticks, seqVars, concVars, sideVars>>

\* variant that sends the default cc_value for every key of the CC namespace
PressSelect_default(c) ==
  /\ presses < MaxPresses
  /\ CallbackIdle
  /\ c \in SelectControls
  /\ VerbOf(c) = None
  /\ mapping[c].source_list_name = "cc_midis"
  /\ find_key_in_dict(mapping[c].key_name, cc_midis) /= None
  /\ presses' = presses + 1
  /\ LET matched_key == find_key_in_dict(mapping[c].key_name, cc_midis)
     IN /\ last' = matched_key
        /\ out' = send_cc(cc_midis[matched_key], 64, 0, port)
  /\ UNCHANGED <<vol, chan, port, mapping, down, hpc, hcall, held, ktype, stop,
                 tref, threads, seq, sync, rep, early, ticks, seqVars, concVars, sideVars>>

\* variant that records the key as last pressed only when the send succeeded
PressSelect_onsuccess(c) ==
  /\ presses < MaxPresses
  /\ CallbackIdle
  /\ c \in SelectControls
  /\ VerbOf(c) = None
  /\ mapping[c].source_list_name = "cc_midis"
  /\ find_key_in_dict(mapping[c].key_name, cc_midis) /= None
  /\ presses' = presses + 1
  /\ LET matched_key == find_key_in_dict(mapping[c].key_name, cc_midis)
         volume_name == VolumeNameOf(matched_key)
     IN /\ last' = IF port THEN matched_key ELSE last
        /\ out' = IF volume_name /= None
                  THEN send_cc(cc_midis[matched_key], vol[volume_name], 15, port)
                  ELSE send_cc(cc_midis[matched_key], 64, 0, port)
  /\ UNCHANGED <<vol, chan, port, mapping, down, hpc, hcall, held, ktype, stop,
                 tref, threads, seq, sync, rep, early, ticks, seqVars, concVars, sideVars>>

\* pressed() of a key of the CC namespace: the name is looked up in cc_midis,
\* recorded as last pressed, and the CC message is sent (the register's
\* value on channel 16 for a volume key, cc_value 64 on channel 0 otherwise)
PressSelect(c) ==
  /\ presses < MaxPresses
  /\ CallbackIdle
  /\ c \in SelectControls
  /\ VerbOf(c) = None
  /\ mapping[c].source_list_name = "cc_midis"
  /\ find_key_in_dict(mapping[c].key_name, cc_midis) /= None
  /\ presses' = presses + 1
  /\ LET matched_key == find_key_in_dict(mapping[c].key_name, cc_midis)
         volume_name == VolumeNameOf(matched_key)
     IN /\ last' = matched_key
        /\ out' = IF volume_name /= None
                  THEN send_cc(cc_midis[matched_key], vol[volume_name], 15, port)
                  ELSE send_cc(cc_midis[matched_key], 64, 0, port)
  /\ UNCHANGED <<vol, chan, port, mapping, down, hpc, hcall, held, ktype, stop,
                 tref, threads, seq, sync, rep, early, ticks, seqVars, concVars, sideVars>>

(***************************************************************************)
(* _start_volume_key_repeat: the repeat thread.                            *)
(***************************************************************************)
SetThread(t, r) ==
  threads' = [threads EXCEPT ![t] = r]

ThreadFrame ==
  UNCHANGED <<last, chan, port, mapping, down, hpc, hcall, held, ktype, stop,
              tref, presses, seq, sync, early, seqVars, concVars, sideVars>>

\* a wait was cut short by the stop event: the thread returns
ThreadExit(t) ==
  /\ threads[t].pc = "exit"
  /\ SetThread(t, DeadThread)
  /\ out' = NoMsg
  /\ UNCHANGED <<vol, rep, ticks>>
  /\ ThreadFrame

\* the test at the top of the loop: the event is not set, the key is held
\* and the key type is the one the thread started with
loop_continues(c, key_type) ==
  ~stop[c] /\ held[c] /\ ktype[c] = key_type

\* one round of the loop up to the read of the register: the loop is left
\* (the thread ends) when the test fails or when the call finds no target
\* register; else increment/decrement_last_pressed_volume has read the
\* register (_get_volume)
LoopRound(r) ==
  IF ~loop_continues(r.ctl, r.key_type) THEN DeadThread
  ELSE IF VolumeNameOf(last) = None THEN DeadThread
  ELSE [r EXCEPT !.pc = "c_set",
                 !.reg = VolumeNameOf(last), !.val = vol[VolumeNameOf(last)]]

\* the calls the threads start are counted, up to MaxTicks
Tick(t) ==
  IF threads'[t].pc = "c_set"
  THEN ticks < MaxTicks /\ ticks' = ticks + 1
  ELSE ticks' = ticks

\* stop.wait(timeout=repeat_delay) returns False: the initial delay has
\* elapsed; return if the key is no longer held, else remember the key type
\* and enter the loop
DelayElapsed(t) ==
  /\ threads[t].pc = "delay"
  /\ LET c == threads[t].ctl
     IN IF ~held[c]
        THEN SetThread(t, DeadThread)
        ELSE SetThread(t, LoopRound([threads[t] EXCEPT !.elapsed = TRUE,
                                                        !.key_type = ktype[c]]))
  /\ Tick(t)
  /\ out' = NoMsg
  /\ UNCHANGED <<vol, rep>>
  /\ ThreadFrame

\* the call's _set_volume
LoopSet(t) ==
  /\ threads[t].pc = "c_set"
  /\ LET new_value == step_value(threads[t].key_type, threads[t].val)
     IN /\ vol' = [vol EXCEPT ![threads[t].reg] = clamp_volume(new_value)]
        /\ SetThread(t, [threads[t] EXCEPT !.pc = "c_send", !.val = new_value])
  /\ rep' = [rep EXCEPT ![threads[t].ctl] = @ + 1]
  /\ out' = NoMsg
  /\ UNCHANGED ticks
  /\ ThreadFrame

\* ... its send; then stop.wait(timeout=repeat_interval), which returns True
\* at once when the event is set
LoopSend(t) ==
  /\ threads[t].pc = "c_send"
  /\ out' = Emit(threads[t].reg, threads[t].val, last, chan, port)
  /\ IF stop[threads[t].ctl]
     THEN SetThread(t, DeadThread)
     ELSE SetThread(t, [threads[t] EXCEPT !.pc = "wait", !.reg = None, !.val = 0])
  /\ UNCHANGED <<vol, rep, ticks>>
  /\ ThreadFrame

\* stop.wait(timeout=repeat_interval) returns False: next round of the loop
IntervalElapsed(t) ==
  /\ threads[t].pc = "wait"
  /\ SetThread(t, LoopRound(threads[t]))
  /\ Tick(t)
  /\ out' = NoMsg
  /\ UNCHANGED <<vol, rep>>
  /\ ThreadFrame

(***************************************************************************)
(* KetronMidi: the pedal and tab catalogues and their SysEx encoders       *)
(* (devdeck/ketron.py), and MidiManager.send_cc called on its own.         *)
(***************************************************************************)
KETRON_SYSEX_MANUFACTURER_ID == 67
KETRON_SYSEX_DEVICE_ID == 0
KETRON_SYSEX_ON_VALUE == 127
KETRON_SYSEX_OFF_VALUE == 0

\* _init_pedal_midis
pedal_midis ==
  ("Sustain" :> 0) @@ ("Soft" :> 1) @@ ("Sostenuto" :> 2) @@ ("Arr.A" :> 3) @@
  ("Arr.B" :> 4) @@ ("Arr.C" :> 5) @@ ("Arr.D" :> 6) @@ ("Fill1" :> 7) @@
  ("Fill2" :> 8) @@ ("Fill3" :> 9) @@ ("Fill4" :> 10) @@ ("Break1" :> 11) @@
  ("Break2" :> 12) @@ ("Break3" :> 13) @@ ("Break4" :> 14) @@
  ("Intro/End1" :> 15) @@ ("Intro/End2" :> 16) @@ ("Intro/End3" :> 17) @@
  ("Start/Stop" :> 18) @@ ("Tempo Up" :> 19) @@ ("Tempo Down" :> 20) @@
  ("Fill" :> 21) @@ ("Break" :> 22) @@ ("To End" :> 23) @@
  ("Bass to Lowest" :> 24) @@ ("Bass to Root" :> 25) @@ ("Live Bass" :> 26) @@
  ("Acc.BassToChord" :> 27) @@ ("Manual Bass" :> 28) @@
  ("Voice Lock Bass" :> 29) @@ ("Bass Mono/Poly" :> 30) @@
  ("Dial Down" :> 31) @@ ("Dial Up" :> 32) @@ ("Auto Fill" :> 33) @@
  ("Fill to Arr." :> 34) @@ ("After Fill" :> 35) @@
  ("Low. Hold Start" :> 36) @@ ("Low. Hold Stop" :> 37) @@
  ("Low. Hold Break" :> 38) @@ ("Low. Stop Mute" :> 39) @@
  ("Low. Mute" :> 40) @@ ("Low. and Bass" :> 41) @@
  ("Low. Voice Lock" :> 42) @@ ("Pianist" :> 43) @@
  ("Pianist Auto/Stand." :> 44) @@ ("Pianist Sustain" :> 45) @@
  ("Bassist" :> 46) @@ ("Bassist Easy/Exp." :> 47) @@ ("Key Start" :> 48) @@
  ("Key Stop" :> 49) @@ ("Enter" :> 50) @@ ("Exit" :> 51) @@
  ("Registration" :> 52) @@ ("Fade" :> 53) @@ ("Harmony" :> 54) @@
  ("Octave Up" :> 55) @@ ("Octave Down" :> 56) @@ ("RestartCount In" :> 57) @@
  ("Micro1 On/Off" :> 58) @@ ("Micro1 Down" :> 59) @@ ("Micro1 Up" :> 60) @@
  ("Voicetr.On/Off" :> 61) @@ ("Voicetr.Down" :> 62) @@
  ("Voicetr.Up" :> 63) @@ ("Micro2 On/Off" :> 64) @@ ("EFX1 On/Off" :> 65) @@
  ("EFX2 On/Off" :> 66) @@ ("Arabic.Set1" :> 67) @@ ("Arabic.Set2" :> 68) @@
  ("Arabic.Set3" :> 69) @@ ("Arabic.Set4" :> 70) @@ ("Dry On Stop" :> 71) @@
  ("Pdf Page Down" :> 72) @@ ("Pdf Page Up" :> 73) @@
  ("Pdf Scroll Down" :> 74) @@ ("Pdf Scroll Up" :> 75) @@
  ("Glide Down" :> 76) @@ ("Lead Mute" :> 77) @@ ("Expr. Left/Style" :> 78) @@
  ("Arabic Reset" :> 79) @@ ("Hold" :> 80) @@ ("2nd On/Off" :> 81) @@
  ("Pause" :> 82) @@ ("Talk On/Off" :> 83) @@ ("Manual Drum" :> 84) @@
  ("Kick Off" :> 85) @@ ("Snare Off" :> 86) @@ ("Rimshot Off" :> 87) @@
  ("Hit-Hat Off" :> 88) @@ ("Cymbal Off" :> 89) @@ ("Tom Off" :> 90) @@
  ("Latin1 Off" :> 91) @@ ("Latin2 Off" :> 92) @@ ("Latin3/Tamb Off" :> 93) @@
  ("Clap/fx Off" :> 94) @@ ("Voice Down" :> 95) @@ ("Voice Up" :> 96) @@
  ("Regis Down" :> 97) @@ ("Regis Up" :> 98) @@ ("Style Voice Down" :> 99) @@
  ("Style Voice Up" :> 100) @@ ("EFX1 Preset Down" :> 101) @@
  ("EFX1 Preset Up" :> 102) @@ ("Multi" :> 103) @@ ("Page<<" :> 104) @@
  ("Page>>" :> 105) @@ ("RegisVoice<<" :> 106) @@ ("RegisVoice>>" :> 107) @@
  ("Text Page" :> 110) @@ ("Text Page+" :> 111) @@ ("Style Voice 1" :> 112) @@
  ("Style Voice 2" :> 113) @@ ("Style Voice 3" :> 114) @@
  ("Style Voice 4" :> 115) @@ ("VIEW & MODELING" :> 116) @@
  ("Lock Bass" :> 117) @@ ("LockChord" :> 118) @@ ("Lyrics" :> 119) @@
  ("VoiceToABCD" :> 135) @@ ("TAP" :> 136) @@ ("Autocrash" :> 137) @@
  ("Transp Down" :> 138) @@ ("Transp Up" :> 139) @@ ("Text Record" :> 140) @@
  ("Bass & Drum" :> 141) @@ ("Pdf Clear" :> 142) @@ ("Record" :> 144) @@
  ("Play" :> 145) @@ ("DoubleDown" :> 146) @@ ("DoubleUp" :> 147) @@
  ("Arr.Off" :> 148) @@ ("FILL & DRUM IN" :> 149) @@
  ("Wah to Pedal" :> 150) @@ ("Overdrive to Pedal" :> 152) @@
  ("Drum Mute" :> 153) @@ ("Bass Mute" :> 154) @@ ("Chords Mute" :> 155) @@
  ("Real Chords Mute" :> 156) @@ ("Voice2 to Pedal" :> 157) @@
  ("Micro Edit" :> 158) @@ ("Micro2 Edit" :> 159) @@ ("HALF BAR" :> 160) @@
  ("Bs Sust Pedal" :> 161) @@ ("Scale" :> 162) @@ ("End Swap" :> 163) @@
  ("Set Down" :> 164) @@ ("Set Up" :> 165) @@ ("FswChDelay" :> 166) @@
  ("IntroOnArr." :> 167) @@ ("EndingOnArr." :> 168) @@ ("Arr. Down" :> 169) @@
  ("Arr. Up" :> 170) @@ ("Ending1" :> 171) @@ ("Ending2" :> 172) @@
  ("Ending3" :> 173) @@ ("Bass Lock" :> 174) @@ ("Intro Loop" :> 176) @@
  ("Scene Down" :> 177) @@ ("Scene Up" :> 178) @@ ("STEM Scene A" :> 179) @@
  ("STEM Scene B" :> 180) @@ ("STEM Scene C" :> 181) @@
  ("STEM Scene D" :> 182) @@ ("STEM Solo" :> 183) @@
  ("STEM Autoplay" :> 184) @@ ("STEM A On/Off" :> 185) @@
  ("STEM B On/Off" :> 186) @@ ("STEM C On/Off" :> 187) @@
  ("STEM D On/Off" :> 188) @@ ("STEM Lead On/Off" :> 189) @@
  ("Art. Toggle" :> 190) @@ ("Key Tune On/Off" :> 191) @@
  ("Txt Clear" :> 192) @@ ("Voicetr. Edit" :> 193) @@ ("Clear Image" :> 194)

\* _init_tab_midis
tab_midis ==
  ("DIAL_DOWN" :> 0) @@ ("DIAL_UP" :> 1) @@ ("PLAYER_A" :> 2) @@
  ("PLAYER_B" :> 3) @@ ("ENTER" :> 4) @@ ("MENU" :> 6) @@ ("LYRIC" :> 7) @@
  ("LEAD" :> 8) @@ ("VARIATION" :> 9) @@ ("DRAWBARS_VIEW" :> 10) @@
  ("DRAWBARS" :> 16) @@ ("DRUMSET" :> 17) @@ ("TALK" :> 18) @@
  ("VOICETRON" :> 19) @@ ("STYLE_BOX" :> 20) @@ ("VOICE1" :> 25) @@
  ("VOICE2" :> 26) @@ ("USER_VOICE" :> 27) @@ ("XFADE" :> 28) @@
  ("INTRO1" :> 29) @@ ("INTRO2" :> 30) @@ ("INTRO3" :> 31) @@
  ("BASSIST" :> 32) @@ ("DRUM_MIXER" :> 34) @@ ("OCTAVE_UP" :> 36) @@
  ("OCTAVE_DOWN" :> 37) @@ ("USER_STYLE" :> 38) @@ ("DSP" :> 39) @@
  ("ADSR_FILTER" :> 40) @@ ("MICRO" :> 41) @@ ("ARRA" :> 44) @@
  ("ARRB" :> 45) @@ ("ARRC" :> 46) @@ ("ARRD" :> 47) @@ ("FILL" :> 48) @@
  ("BREAK" :> 49) @@ ("JUKE_BOX" :> 50) @@ ("STEM" :> 51) @@
  ("PIANIST" :> 52) @@ ("BASS_TO_LOWEST" :> 64) @@ ("MANUAL_BASS" :> 65) @@
  ("PORTAMENTO" :> 72) @@ ("HARMONY" :> 73) @@ ("PAUSE" :> 74) @@
  ("TEMPO_SLOW" :> 75) @@ ("TEMPO_FAST" :> 76) @@ ("START_STOP" :> 77) @@
  ("TRANSP_DOWN" :> 89) @@ ("TRANSP_UP" :> 90) @@ ("AFTERTOUCH" :> 94) @@
  ("EXIT" :> 95) @@ ("ROTOR_SLOW" :> 96) @@ ("ROTOR_FAST" :> 97) @@
  ("PIANO_FAM" :> 98) @@ ("ETHNIC_FAM" :> 99) @@ ("ORGAN_FAM" :> 100) @@
  ("GUITAR_FAM" :> 101) @@ ("BASS_FAM" :> 102) @@ ("STRING_FAM" :> 103) @@
  ("BRASS_FAM" :> 104) @@ ("SAX_FAM" :> 105) @@ ("HOLD" :> 111) @@
  ("PAD_FAM" :> 112) @@ ("SYNTH_FAM" :> 113) @@ ("FADEOUT" :> 115) @@
  ("BASS_TO_ROOT" :> 116) @@ ("GM" :> 119)

\* value >> 7 and value & 0x7F on a non-negative integer
ShiftRight7(value) == value \div 128
And7F(value) == value % 128

\* variant that never splits the code into two 7-bit bytes
format_pedal_sysex_nosplit(pedal_name, on_state) ==
  IF pedal_name \notin DOMAIN pedal_midis
  THEN [error |-> "KeyError", data |-> <<>>]
  ELSE [error |-> "none",
        data |-> <<KETRON_SYSEX_MANUFACTURER_ID, KETRON_SYSEX_DEVICE_ID,
                   pedal_midis[pedal_name],
                   IF on_state THEN KETRON_SYSEX_ON_VALUE ELSE KETRON_SYSEX_OFF_VALUE>>]

\* format_pedal_sysex(pedal_name, on_state): the payload without 0xF0 / 0xF7
format_pedal_sysex(pedal_name, on_state) ==
  IF pedal_name \notin DOMAIN pedal_midis
  THEN [error |-> "KeyError", data |-> <<>>]
  ELSE LET pedal_value == pedal_midis[pedal_name]
           state_value == IF on_state THEN KETRON_SYSEX_ON_VALUE
                                      ELSE KETRON_SYSEX_OFF_VALUE
           sysex_data == <<KETRON_SYSEX_MANUFACTURER_ID, KETRON_SYSEX_DEVICE_ID>>
       IN [error |-> "none",
           data |-> IF pedal_value < 128
                    THEN sysex_data \o <<pedal_value, state_value>>
                    ELSE sysex_data \o <<And7F(ShiftRight7(pedal_value)),
                                         And7F(pedal_value), state_value>>]

\* format_tab_sysex(tab_name, on_state): the code is one byte, as it is
format_tab_sysex(tab_name, on_state) ==
  IF tab_name \notin DOMAIN tab_midis
  THEN [error |-> "KeyError", data |-> <<>>]
  ELSE [error |-> "none",
        data |-> <<KETRON_SYSEX_MANUFACTURER_ID, KETRON_SYSEX_DEVICE_ID,
                   tab_midis[tab_name],
                   IF on_state THEN KETRON_SYSEX_ON_VALUE ELSE KETRON_SYSEX_OFF_VALUE>>]

\* a name that is in neither catalogue
UnknownNames == {"No Such Command"}

\* the encoder calls examined: every catalogue name and one unknown name,
\* on and off
SysexCalls ==
  [fn : {"format_pedal_sysex"}, name : DOMAIN pedal_midis \cup UnknownNames,
   on_state : BOOLEAN]
    \cup [fn : {"format_tab_sysex"}, name : DOMAIN tab_midis \cup UnknownNames,
          on_state : BOOLEAN]

EncFrame ==
  UNCHANGED <<mgrVars, seqVars, concVars, repVars, ecall, sendVars, auxVars>>

FormatPedalSysex ==
  /\ ecall.fn = "format_pedal_sysex" /\ edata = NoData
  /\ edata' = format_pedal_sysex(ecall.name, ecall.on_state)
  /\ EncFrame

FormatTabSysex ==
  /\ ecall.fn = "format_tab_sysex" /\ edata = NoData
  /\ edata' = format_tab_sysex(ecall.name, ecall.on_state)
  /\ EncFrame

(***************************************************************************)
(* KetronMidi.send_pedal_command / send_tab_command (SpecSend): the port   *)
(* is opened if it is not open, the ON payload is sent, and after the      *)
(* delay the OFF payload; every failure and every exception returns False. *)
(***************************************************************************)
\* the calls examined: every catalogue name and one unknown name
SendCalls ==
  [fn : {"send_pedal_command"}, name : DOMAIN pedal_midis \cup UnknownNames]
    \cup [fn : {"send_tab_command"}, name : DOMAIN tab_midis \cup UnknownNames]

\* the payload the call formats for a state
FormatFor(call, on_state) ==
  IF call.fn = "send_pedal_command"
  THEN format_pedal_sysex(call.name, on_state)
  ELSE format_tab_sysex(call.name, on_state)

\* MidiManager.send_sysex: every byte must be in 0..127; accepted is TRUE
\* when a port is found and port.send does not raise
send_sysex(data, accepted) ==
  (\A i \in 1..Len(data) : data[i] \in 0..127) /\ accepted

SendFrame ==
  UNCHANGED <<vol, last, chan, out, seqVars, concVars, repVars, encVars,
              auxVars>>

\* if not midi.is_port_open(port_name): if not midi.open_port(port_name):
\* return False
CmdOpen ==
  /\ ecall.fn \in {"send_pedal_command", "send_tab_command"}
  /\ epc = "start"
  /\ \E opened \in BOOLEAN :
       IF port \/ opened
       THEN /\ port' = TRUE
            /\ epc' = "on"
            /\ eres' = eres
       ELSE /\ port' = port
            /\ epc' = "done"
            /\ eres' = "False"
  /\ UNCHANGED wire
  /\ SendFrame

\* one send of the call: the payload for on_state is formatted and given
\* to send_sysex; a KeyError or a failed send returns False
CmdSend(on_state, accepted, next_pc, value) ==
  LET sysex == FormatFor(ecall, on_state)
  IN IF sysex.error = "none" /\ send_sysex(sysex.data, accepted)
     THEN /\ wire' = Append(wire, sysex.data)
          /\ epc' = next_pc
          /\ eres' = value
     ELSE /\ wire' = wire
          /\ epc' = "done"
          /\ eres' = "False"

\* variant that goes on to the OFF message when the ON message failed
CmdOn_goes_on ==
  /\ epc = "on"
  /\ \E accepted \in BOOLEAN :
       LET sysex == FormatFor(ecall, TRUE)
       IN /\ wire' = IF sysex.error = "none" /\ send_sysex(sysex.data, accepted)
                     THEN Append(wire, sysex.data) ELSE wire
          /\ epc' = IF sysex.error = "none" THEN "off" ELSE "done"
          /\ eres' = IF sysex.error = "none" THEN eres ELSE "False"
  /\ UNCHANGED port
  /\ SendFrame

\* the ON message
CmdOn ==
  /\ epc = "on"
  /\ \E accepted \in BOOLEAN : CmdSend(TRUE, accepted, "off", eres)
  /\ UNCHANGED port
  /\ SendFrame

\* time.sleep(delay) has passed: the OFF message; return True
CmdOff ==
  /\ epc = "off"
  /\ \E accepted \in BOOLEAN : CmdSend(FALSE, accepted, "done", "True")
  /\ UNCHANGED port
  /\ SendFrame

(***************************************************************************)
(* KetronKeyMappingControl._find_key_in_dict on the three catalogues       *)
(* (SpecLookup): one call per behaviour, the name and the catalogue drawn  *)
(* in Init.                                                                *)
(***************************************************************************)
SourceLists == {"pedal_midis", "tab_midis", "cc_midis"}

\* getattr(self.ketron_midi, source_list_name)
Catalogue(source_list_name) ==
  CASE source_list_name = "pedal_midis" -> pedal_midis
    [] source_list_name = "tab_midis"   -> tab_midis
    [] source_list_name = "cc_midis"    -> cc_midis

\* the names looked up: every catalogue key as written, in lower case, the
\* mixed-case names of the key mapping file, and a name no catalogue has
LookupNames ==
  LET keys == DOMAIN pedal_midis \cup DOMAIN tab_midis \cup DOMAIN cc_midis
  IN keys \cup {Lower(k) : k \in keys} \cup {"Voice1", "Lowers", "Style"}
          \cup UnknownNames

LookupCalls ==
  [fn : {"find_key_in_dict"}, name : LookupNames, dict : SourceLists]

FindKeyInDict ==
  /\ ecall.fn = "find_key_in_dict" /\ edata = NoData
  /\ edata' = [error |-> "none",
               data |-> <<find_key_in_dict(ecall.name, Catalogue(ecall.dict))>>]
  /\ EncFrame

(***************************************************************************)
(* pressed() of the keys that are not Volume Up / Volume Down and not a    *)
(* CC key (SpecPress, with the actions of SpecRepeat): the Mute key, the   *)
(* pedal and tab keys, and the keys pressed() returns from early.  The     *)
(* manager's toggle is one step here.                                      *)
(***************************************************************************)
\* str.strip() on the names of the model: only the blank name changes
Strip(s) == IF s = " " THEN "" ELSE s

\* self.key_mapping = self._get_key_mapping(): None when the key has no entry
HasMapping(c) == c \in DOMAIN mapping

\* key_name = self.key_mapping.get('key_name', '').strip()
KeyName(c) == Strip(mapping[c].key_name)

\* the three names pressed() handles before it looks at source_list_name
IsVerb(key_name) == Upper(key_name) \in {"VOLUME UP", "VOLUME DOWN", "MUTE"}

\* pressed() reaches the dispatch on source_list_name
Dispatched(c) ==
  /\ HasMapping(c)
  /\ KeyName(c) /= ""
  /\ ~IsVerb(KeyName(c))

\* the messages send_pedal_command / send_tab_command put on the wire when
\* the transport accepts (or refuses) the ON and the OFF message
Sent(call, on_ok, off_ok) ==
  LET sysex_on == FormatFor(call, TRUE)
      sysex_off == FormatFor(call, FALSE)
  IN IF sysex_on.error /= "none" \/ ~send_sysex(sysex_on.data, on_ok)
     THEN <<>>
     ELSE IF ~send_sysex(sysex_off.data, off_ok)
          THEN <<sysex_on.data>>
          ELSE <<sysex_on.data, sysex_off.data>>

PressFrame ==
  UNCHANGED <<vol, last, chan, port, mapping, down, hpc, hcall, held, ktype,
              stop, tref, threads, seq, ticks, sync, rep, early, seqVars,
              concVars, encVars, epc, auxVars>>

\* variant of the pedal / tab press that records the matched name as last
\* pressed
PressCommand_tracks(c) ==
  /\ presses < MaxPresses
  /\ CallbackIdle
  /\ Dispatched(c)
  /\ mapping[c].source_list_name \in {"pedal_midis", "tab_midis"}
  /\ find_key_in_dict(KeyName(c), Catalogue(mapping[c].source_list_name)) /= None
  /\ presses' = presses + 1
  /\ LET matched_key == find_key_in_dict(KeyName(c), Catalogue(mapping[c].source_list_name))
         call == [fn |-> IF mapping[c].source_list_name = "pedal_midis"
                         THEN "send_pedal_command" ELSE "send_tab_command",
                  name |-> matched_key]
     IN /\ last' = matched_key
        /\ \E on_ok, off_ok \in BOOLEAN :
             /\ wire' = Sent(call, on_ok, off_ok)
             /\ eres' = IF Len(Sent(call, on_ok, off_ok)) = 2 THEN "True" ELSE "False"
  /\ out' = NoMsg
  /\ UNCHANGED <<vol, chan, port, mapping, down, hpc, hcall, held, ktype,
                 stop, tref, threads, seq, ticks, sync, rep, early, seqVars,
                 concVars, encVars, epc, auxVars>>

\* pressed() of a pedal or tab key whose name its catalogue has: the
\* command is sent as ON then OFF, and the key flashes
PressCommand(c) ==
  /\ presses < MaxPresses
  /\ CallbackIdle
  /\ Dispatched(c)
  /\ mapping[c].source_list_name \in {"pedal_midis", "tab_midis"}
  /\ find_key_in_dict(KeyName(c), Catalogue(mapping[c].source_list_name)) /= None
  /\ presses' = presses + 1
  /\ LET matched_key == find_key_in_dict(KeyName(c), Catalogue(mapping[c].source_list_name))
         call == [fn |-> IF mapping[c].source_list_name = "pedal_midis"
                         THEN "send_pedal_command" ELSE "send_tab_command",
                  name |-> matched_key]
     IN \E on_ok, off_ok \in BOOLEAN :
          /\ wire' = Sent(call, on_ok, off_ok)
          /\ eres' = IF Len(Sent(call, on_ok, off_ok)) = 2 THEN "True" ELSE "False"
  /\ out' = NoMsg
  /\ PressFrame

\* variant of the early returns that records the name as last pressed
PressIgnored_records(c) ==
  /\ presses < MaxPresses
  /\ CallbackIdle
  /\ \/ ~HasMapping(c)
     \/ HasMapping(c) /\ KeyName(c) = ""
     \/ Dispatched(c) /\ mapping[c].source_list_name \notin SourceLists
     \/ /\ Dispatched(c) /\ mapping[c].source_list_name \in SourceLists
        /\ find_key_in_dict(KeyName(c), Catalogue(mapping[c].source_list_name)) = None
  /\ presses' = presses + 1
  /\ out' = NoMsg
  /\ last' = IF HasMapping(c) THEN KeyName(c) ELSE last
  /\ UNCHANGED <<vol, chan, port, mapping, down, hpc, hcall, held, ktype,
                 stop, tref, threads, seq, ticks, sync, rep, early, seqVars,
                 concVars, sideVars>>

\* pressed() returns early: the key has no entry, its name is empty, its
\* source list is none of the three, or the source list does not have the
\* name (an error is rendered on the key in the last two cases)
PressIgnored(c) ==
  /\ presses < MaxPresses
  /\ CallbackIdle
  /\ \/ ~HasMapping(c)
     \/ HasMapping(c) /\ KeyName(c) = ""
     \/ Dispatched(c) /\ mapping[c].source_list_name \notin SourceLists
     \/ /\ Dispatched(c) /\ mapping[c].source_list_name \in SourceLists
        /\ find_key_in_dict(KeyName(c), Catalogue(mapping[c].source_list_name)) = None
  /\ presses' = presses + 1
  /\ out' = NoMsg
  /\ wire' = wire /\ eres' = eres
  /\ PressFrame

\* pressed(), "MUTE" branch: toggle_mute_last_pressed_volume on the register
\* the pointer names, nothing when it names none
PressMute(c) ==
  /\ presses < MaxPresses
  /\ CallbackIdle
  /\ HasMapping(c)
  /\ Upper(KeyName(c)) = "MUTE"
  /\ presses' = presses + 1
  /\ IF VolumeNameOf(last) = None
     THEN /\ vol' = vol
          /\ out' = NoMsg
     ELSE LET r == VolumeNameOf(last)
              new_volume == toggle_value(vol[r])
          IN /\ vol' = [vol EXCEPT ![r] = clamp_volume(new_volume)]
             /\ out' = Emit(r, new_volume, last, chan, port)
  /\ UNCHANGED <<last, chan, port, mapping, down, hpc, hcall, held, ktype,
                 stop, tref, threads, seq, ticks, sync, rep, early, seqVars,
                 concVars, sideVars>>

(***************************************************************************)
(* The key callback path (SpecCallback): DeckManager.key_callback calls    *)
(* pressed(key) / released(key) of the active deck, which calls the        *)
(* control inside try / except Exception.  A step of the control that      *)
(* renders, sends or calls the manager without a guard of its own either   *)
(* returns or raises.                                                      *)
(***************************************************************************)
\* a key the active deck has no control for
UnboundKeys == {"kUnbound"}

\* key_callback(deck, key, state): state is TRUE for a press
Events == [key : AllControls \cup UnboundKeys, state : BOOLEAN]

CallbackFrame ==
  UNCHANGED <<mgrVars, seqVars, concVars, repVars, encVars, sendVars,
              cacheVars, mixVars, navVars>>

\* the callback returns to the library
Return ==
  /\ kpc' = "idle"
  /\ UNCHANGED <<kev, events, failures, escaped>>

\* the step ends with an exception, which reaches the frame named
Raise(frame) ==
  /\ kpc' = frame
  /\ UNCHANGED <<kev, events, failures, escaped>>

\* key_callback: the event is handed to the active deck
KeyCallback(ev) ==
  /\ kpc = "idle"
  /\ events < MaxEvents
  /\ events' = events + 1
  /\ kev' = ev
  /\ kpc' = "deck"
  /\ UNCHANGED <<failures, escaped>>
  /\ CallbackFrame

\* deck.pressed(key_no) / deck.released(key_no): return when the deck has no
\* control for the key, otherwise call the control inside try
DeckCall ==
  /\ kpc = "deck"
  /\ IF kev.key \in UnboundKeys THEN Return ELSE Raise("control")
  /\ CallbackFrame

\* control.pressed(): returns at once when the key has no entry or an empty
\* name; the Volume Up / Volume Down / Mute branches run outside the try of
\* pressed(), the dispatch on source_list_name inside it
ControlPressed ==
  /\ kpc = "control" /\ kev.state
  /\ LET c == kev.key
     IN IF ~HasMapping(c) \/ KeyName(c) = ""
        THEN Return
        ELSE IF IsVerb(KeyName(c))
             THEN Return \/ Raise("caught")
             ELSE Return \/ Raise("handler")
  /\ CallbackFrame

\* control.released(): _stop_volume_key_repeat for Volume Up / Volume Down,
\* then _render(), neither inside a try
ControlReleased ==
  /\ kpc = "control" /\ ~kev.state
  /\ (Return \/ Raise("caught"))
  /\ CallbackFrame

\* pressed(), except Exception: the error is logged and rendered on the key
ControlHandler ==
  /\ kpc = "handler"
  /\ (Return \/ Raise("caught"))
  /\ CallbackFrame

\* variant of the deck that calls the control without try
DeckExcept_notry ==
  /\ kpc = "caught"
  /\ kpc' = "idle"
  /\ escaped' = TRUE
  /\ UNCHANGED <<kev, events, failures>>
  /\ CallbackFrame

\* deck.pressed / deck.released, except Exception: the error is logged and
\* the deck returns
DeckExcept ==
  /\ kpc = "caught"
  /\ kpc' = "idle"
  /\ failures' = failures + 1
  /\ UNCHANGED <<kev, events, escaped>>
  /\ CallbackFrame

(***************************************************************************)
(* The key mapping cache (SpecCache): _get_key_mapping passes the setting  *)
(* key_mappings_file (a str, or None) to the class method                  *)
(* _load_key_mappings, which reads and writes the three class attributes   *)
(* without a lock.  Each read or write of an attribute and each access to  *)
(* the file is a step; the files are changed by an editor outside the      *)
(* program, content and modification time together.                        *)
(***************************************************************************)
Resolvers == 1..MaxResolvers

\* config/key_mappings.json, used when the setting is absent, and a file a
\* control names in its settings
DefaultName == "key_mappings.json"
FileNames == {DefaultName, "other.json"}

\* self.settings.get('key_mappings_file')
Requests == {NoneObj, Str("other.json")}

\* the file a request is loaded from: the default file for None, otherwise
\* Path(key_mappings_file).resolve()
Located(req) == IF req = NoneObj THEN DefaultName ELSE req.name

\* a == b of Python on these values
py_eq(a, b) == a.kind = b.kind /\ a.name = b.name

\* key_mappings_path.exists() and stat().st_mtime; the modification time
\* changes with every change of the content
Exists(n) == files[n].state /= "missing"
st_mtime(n) == files[n].ver

IdleResolver ==
  [pc |-> "idle", req |-> NoneObj, path |-> None, local |-> NoTable,
   res |-> NoTable, start |-> -1, seenc |-> 0, seenf |-> 0, id |-> 0,
   why |-> "none"]

CacheFrame ==
  UNCHANGED <<mgrVars, seqVars, concVars, repVars, encVars, sendVars, cbVars,
              mixVars, navVars>>

SetResolver(t, r) == rs' = [rs EXCEPT ![t] = r]

\* the call returns value (a table, or NoTable for None)
Returned(t, value, why) ==
  [rs[t] EXCEPT !.pc = "done", !.res = value, !.why = why]

\* _get_key_mapping is called
StartResolve(t, req) ==
  /\ rs[t].pc \in {"idle", "done"}
  /\ loads < MaxLoads
  /\ loads' = loads + 1
  /\ SetResolver(t, [IdleResolver EXCEPT !.pc = "check", !.req = req,
                                         !.path = Located(req),
                                         !.start = files[Located(req)].ver,
                                         !.id = loads + 1])
  /\ UNCHANGED <<files, ccache, cfile, cmtime, cwho, mods>>
  /\ CacheFrame

\* cls._key_mappings_cache is not None
ReadCache(t) ==
  /\ rs[t].pc = "check"
  /\ SetResolver(t, [rs[t] EXCEPT !.pc = IF ccache = NoTable THEN "locate"
                                                             ELSE "check2",
                                  !.seenc = IF ccache = NoTable THEN 0
                                                                ELSE cwho.c])
  /\ UNCHANGED <<files, ccache, cfile, cmtime, cwho, loads, mods>>
  /\ CacheFrame

\* ... and cls._key_mappings_file == key_mappings_file, and the branch taken
\* when both hold: the cached table is returned when the file's modification
\* time is the cached one, the cache is cleared when the file has changed or
\* is gone
ReadFile(t) ==
  /\ rs[t].pc = "check2"
  /\ LET r == [rs[t] EXCEPT !.seenf = cwho.f]
     IN IF ~py_eq(cfile, rs[t].req)
        THEN /\ SetResolver(t, [r EXCEPT !.pc = "locate"])
             /\ UNCHANGED <<ccache, cfile, cmtime>>
        ELSE IF rs[t].req = NoneObj
        THEN /\ SetResolver(t, [r EXCEPT !.pc = "done", !.res = ccache,
                                         !.why = "cached"])
             /\ UNCHANGED <<ccache, cfile, cmtime>>
        ELSE IF ~Exists(rs[t].req.name)
        THEN /\ SetResolver(t, [r EXCEPT !.pc = "done", !.res = NoTable,
                                         !.why = "missing"])
             /\ ccache' = NoTable /\ cfile' = NoneObj /\ cmtime' = NoValue
        ELSE IF cmtime /= NoValue /\ st_mtime(rs[t].req.name) = cmtime
        THEN /\ SetResolver(t, [r EXCEPT !.pc = "done", !.res = ccache,
                                         !.why = "cached"])
             /\ UNCHANGED <<ccache, cfile, cmtime>>
        ELSE /\ SetResolver(t, [r EXCEPT !.pc = "locate"])
             /\ ccache' = NoTable /\ cmtime' = NoValue
             /\ UNCHANGED cfile
  /\ UNCHANGED <<files, cwho, loads, mods>>
  /\ CacheFrame

\* the path is resolved; None is returned when the file does not exist
Locate(t) ==
  /\ rs[t].pc = "locate"
  /\ SetResolver(t, IF Exists(rs[t].path)
                    THEN [rs[t] EXCEPT !.pc = "read"]
                    ELSE Returned(t, NoTable, "missing"))
  /\ UNCHANGED <<files, ccache, cfile, cmtime, cwho, loads, mods>>
  /\ CacheFrame

\* the file is read and parsed: mappings_dict holds its content; None is
\* returned when it cannot be opened or parsed
ReadContent(t) ==
  /\ rs[t].pc = "read"
  /\ SetResolver(t, CASE files[rs[t].path].state = "ok" ->
                           [rs[t] EXCEPT !.pc = "wcache",
                                         !.local = [path |-> rs[t].path,
                                                    ver |-> files[rs[t].path].ver]]
                      [] files[rs[t].path].state = "bad" ->
                           Returned(t, NoTable, "unloadable")
                      [] OTHER -> Returned(t, NoTable, "missing"))
  /\ UNCHANGED <<files, ccache, cfile, cmtime, cwho, loads, mods>>
  /\ CacheFrame

\* cls._key_mappings_cache = mappings_dict
WriteCache(t) ==
  /\ rs[t].pc = "wcache"
  /\ ccache' = rs[t].local
  /\ cwho' = [cwho EXCEPT !.c = rs[t].id]
  /\ SetResolver(t, [rs[t] EXCEPT !.pc = "wfile"])
  /\ UNCHANGED <<files, cfile, cmtime, loads, mods>>
  /\ CacheFrame

\* cls._key_mappings_file = key_mappings_file
WriteFile(t) ==
  /\ rs[t].pc = "wfile"
  /\ cfile' = PathOf(rs[t].path)
  /\ cwho' = [cwho EXCEPT !.f = rs[t].id]
  /\ SetResolver(t, [rs[t] EXCEPT !.pc = "wmtime"])
  /\ UNCHANGED <<files, ccache, cmtime, loads, mods>>
  /\ CacheFrame

\* cls._key_mappings_mtime = key_mappings_file.stat().st_mtime, then
\* return mappings_dict; stat() raises when the file is gone by now, and
\* None is returned
WriteMtime(t) ==
  /\ rs[t].pc = "wmtime"
  /\ IF Exists(rs[t].path)
     THEN /\ cmtime' = st_mtime(rs[t].path)
          /\ cwho' = [cwho EXCEPT !.m = rs[t].id]
          /\ SetResolver(t, Returned(t, rs[t].local, "loaded"))
     ELSE /\ UNCHANGED <<cmtime, cwho>>
          /\ SetResolver(t, Returned(t, NoTable, "missing"))
  /\ UNCHANGED <<files, ccache, cfile, loads, mods>>
  /\ CacheFrame

FileChange(n, state, ver) ==
  /\ mods < MaxMods
  /\ mods' = mods + 1
  /\ files' = [files EXCEPT ![n] = [state |-> state, ver |-> ver]]
  /\ UNCHANGED <<ccache, cfile, cmtime, cwho, rs, loads>>
  /\ CacheFrame

\* the file is saved with new content (or created again)
Modify(n) == FileChange(n, "ok", files[n].ver + 1)

\* the file is saved with content that is not a mapping table
Corrupt(n) == files[n].state /= "missing" /\ FileChange(n, "bad", files[n].ver + 1)

\* the file is deleted
Delete(n) == files[n].state /= "missing" /\ FileChange(n, "missing", files[n].ver)

\* Message('control_change', channel=, control=, value=) as bytes: the status
\* byte 0xB0 + channel, the control number, the value
control_change(channel, control, value) == <<176 + channel, control, value>>

\* the arguments send_cc is called with on its own
CCControls == {-1, 0, 7, 102, 127, 128}
CCValues == {-1, 0, 64, 127, 128, 300}
CCChannels == {-1, 0, 4, 15, 16}

CCCalls ==
  [fn : {"send_cc"}, control : CCControls, value : CCValues, channel : CCChannels]

\* send_cc(control, value, channel): what port.send is given, if anything
SendCC ==
  /\ ecall.fn = "send_cc" /\ edata = NoData
  /\ LET msg == send_cc(ecall.control, ecall.value, ecall.channel, port)
     IN /\ out' = msg
        /\ edata' = [error |-> "none",
                     data |-> IF msg.status = "sent"
                              THEN control_change(msg.channel, msg.control, msg.value)
                              ELSE <<>>]
  /\ UNCHANGED <<vol, last, chan, port, seqVars, concVars, repVars, ecall,
                 sendVars, auxVars>>

(***************************************************************************)
(* Initial states and specifications.                                      *)
(***************************************************************************)
\* variant of the constructor that leaves the last-pressed-key name unset
InitManager_nopointer ==
  /\ vol = [r \in Registers |-> 80]
  /\ last = None
  /\ chan = 16
  /\ out = NoMsg

\* KetronVolumeManager.__init__
InitManager ==
  /\ vol = [r \in Registers |-> 80]
  /\ last = "Style"
  /\ chan = 16
  /\ out = NoMsg

InitSeq ==
  /\ ret = NoValue
  /\ ops = 0
  /\ op1 = NoOp
  /\ op2 = NoOp

InitCallers ==
  /\ cpc = [p \in Callers |-> "idle"]
  /\ cval = [p \in Callers |-> 0]
  /\ ckind = [p \in Callers |-> "increment"]

\* KetronKeyMappingControl.__init__ for every key
InitControls ==
  /\ mapping = key_mappings
  /\ decks = <<"main">>
  /\ down = [c \in VolumeControls |-> FALSE]
  /\ hpc = [c \in VolumeControls |-> "idle"]
  /\ hcall = [c \in VolumeControls |-> NoCall]
  /\ held = [c \in VolumeControls |-> FALSE]
  /\ ktype = [c \in VolumeControls |-> None]
  /\ stop = [c \in VolumeControls |-> FALSE]
  /\ tref = [c \in VolumeControls |-> NoThread]
  /\ threads = [t \in Tids |-> DeadThread]
  /\ presses = 0
  /\ ticks = 0
  /\ seq = [c \in VolumeControls |-> 0]
  /\ sync = [c \in VolumeControls |-> 0]
  /\ rep = [c \in VolumeControls |-> 0]
  /\ early = [c \in VolumeControls |-> FALSE]

\* no send_pedal_command / send_tab_command call has begun
InitSend ==
  /\ epc = "start"
  /\ wire = <<>>
  /\ eres = "pending"

\* no key event has been delivered
InitCallback ==
  /\ kpc = "idle"
  /\ kev = NoEvent
  /\ events = 0
  /\ failures = 0
  /\ escaped = FALSE

\* both files exist with their first content, nothing is cached and no
\* thread is inside _get_key_mapping
InitCache ==
  /\ files = [n \in FileNames |-> [state |-> "ok", ver |-> 0]]
  /\ ccache = NoTable
  /\ cfile = NoneObj
  /\ cmtime = NoValue
  /\ cwho = [c |-> 0, f |-> 0, m |-> 0]
  /\ rs = [t \in Resolvers |-> IdleResolver]
  /\ loads = 0
  /\ mods = 0

\* no encoder call is under examination
InitEnc ==
  /\ ecall = NoEnc
  /\ edata = NoData
  /\ InitSend
  /\ InitCallback
  /\ InitCache

InitVol ==
  /\ InitManager
  /\ port \in BOOLEAN
  /\ InitSeq
  /\ InitCallers
  /\ start = 80
  /\ InitControls
  /\ InitEnc

NextVol ==
  \/ \E r \in ApiRegisters, a \in Amounts : Increment(r, a)
  \/ \E r \in ApiRegisters, a \in Amounts : Decrement(r, a)
  \/ \E r \in ApiRegisters : Mute(r)
  \/ \E r \in ApiRegisters, v \in SetValues : SetVolume(r, v)
  \/ \E n \in LastNames : SetLastPressedKeyName(n)
  \/ \E c \in Channels : SetMidiOutChannel(c)
  \/ \E a \in Amounts \cup {DEFAULT_AMOUNT} : IncrementLastPressedVolume(a)
  \/ \E a \in Amounts : DecrementLastPressedVolume(a)
  \/ ToggleMuteLastPressedVolume

SpecVol == InitVol /\ [][NextVol]_vars

InitConc ==
  /\ start \in StartValues
  /\ vol = [r \in Registers |-> IF r = "style" THEN start ELSE 80]
  /\ last = "Style"
  /\ chan = 16
  /\ out = NoMsg
  /\ port \in BOOLEAN
  /\ InitSeq
  /\ InitCallers
  /\ InitControls
  /\ InitEnc

\* as InitConc, each caller with a method of its own
InitMix ==
  /\ start \in StartValues
  /\ vol = [r \in Registers |-> IF r = "style" THEN start ELSE 80]
  /\ last = "Style"
  /\ chan = 16
  /\ out = NoMsg
  /\ port \in BOOLEAN
  /\ InitSeq
  /\ cpc = [p \in Callers |-> "idle"]
  /\ cval = [p \in Callers |-> 0]
  /\ ckind \in [Callers -> CallKinds]
  /\ InitControls
  /\ InitEnc

NextMix ==
  \/ \E p \in Callers : CallGet(p)
  \/ \E p \in Callers : CallSet(p)
  \/ \E p \in Callers : CallSend(p)

SpecMix == InitMix /\ [][NextMix]_vars

NextConc ==
  \/ \E p \in Callers : GetVolume(p)
  \/ \E p \in Callers : SetVolumeStep(p)
  \/ \E p \in Callers : SendStep(p)

\* the 'midi_channel' control setting: absent, or an integer of the
\* configuration file
NoSetting == [present |-> FALSE, value |-> 0]
MidiChannelSettings ==
  {NoSetting} \cup {[present |-> TRUE, value |-> n] : n \in {-3, 0, 1, 9, 16, 17}}

\* the range test of initialize()
InRange(midi_channel) ==
  midi_channel.present /\ 1 <= midi_channel.value /\ midi_channel.value <= 16

\* variant that hands the setting to the manager unchecked and unclamped
Initialize_unchecked(midi_channel) ==
  /\ Record("initialize", None)
  /\ chan' = IF midi_channel.present THEN midi_channel.value ELSE chan
  /\ out' = NoMsg
  /\ UNCHANGED <<vol, last, ret>>

\* initialize(): a 'midi_channel' setting in 1..16 is handed to
\* set_midi_out_channel; an absent setting, or one out of range (a warning is
\* logged), leaves the manager alone
Initialize(midi_channel) ==
  IF InRange(midi_channel)
  THEN SetMidiOutChannel(midi_channel.value)
  ELSE /\ Record("initialize", None)
       /\ out' = NoMsg
       /\ UNCHANGED <<vol, last, chan, ret>>

\* the keys of the CC namespace pressed, the output channel configured by
\* initialize() or set on the manager directly, and the calls the Volume Up,
\* Volume Down and Mute keys make on the manager, one callback at a time,
\* with the port open or closed
NextKeys ==
  \/ \E c \in SelectControls : PressSelect(c)
  \/ \E ch \in Channels : SetMidiOutChannel(ch)
  \/ \E midi_channel \in MidiChannelSettings : Initialize(midi_channel)
  \/ IncrementLastPressedVolume(DEFAULT_AMOUNT)
  \/ DecrementLastPressedVolume(DEFAULT_AMOUNT)
  \/ ToggleMuteLastPressedVolume

SpecKeys == InitVol /\ [][NextKeys]_vars

SpecConc == InitConc /\ [][NextConc]_vars

\* the MIDI port is open in SpecRepeat
InitRepeat ==
  /\ InitManager
  /\ port = TRUE
  /\ InitSeq
  /\ InitCallers
  /\ start = 80
  /\ InitControls
  /\ InitEnc

NextRepeat ==
  \/ \E c \in VolumeControls : PressStop(c)
  \/ \E c \in VolumeControls : PressArm(c)
  \/ \E c \in VolumeControls : PressGet(c)
  \/ \E c \in VolumeControls : PressSet(c)
  \/ \E c \in VolumeControls : PressSend(c)
  \/ \E c \in VolumeControls : PressAbort(c)
  \/ \E c \in VolumeControls : ReleaseStop(c)
  \/ \E c \in VolumeControls : StopJoin(c)
  \/ \E c \in SelectControls : PressSelect(c)
  \/ \E t \in Tids : ThreadExit(t)
  \/ \E t \in Tids : DelayElapsed(t)
  \/ \E t \in Tids : LoopSet(t)
  \/ \E t \in Tids : LoopSend(t)
  \/ \E t \in Tids : IntervalElapsed(t)

SpecRepeat == InitRepeat /\ [][NextRepeat]_vars

\* the steps a repeat thread takes without waiting for a timeout
ThreadStep(t) == ThreadExit(t) \/ LoopSet(t) \/ LoopSend(t)

\* the repeat thread, once started, is scheduled: a call it is in returns and
\* a wait that was cut short returns
FairSpecRepeat ==
  /\ SpecRepeat
  /\ \A t \in Tids : WF_vars(ThreadStep(t))

(***************************************************************************)
(* The mapping file changes while the program runs (SpecReload).  pressed() *)
(* and released() call _get_key_mapping first, which reads the table the   *)
(* file holds at that moment.                                              *)
(***************************************************************************)
\* the tables the file can hold: the original one, one in which the keys
\* that were Volume Up and Volume Down carry another command, and one that
\* has no entry for them
MappingTables ==
  { key_mappings,
    [c \in DOMAIN key_mappings |->
       IF c \in VolumeControls
       THEN [key_name |-> "Voice1", source_list_name |-> "cc_midis"]
       ELSE key_mappings[c]],
    [c \in DOMAIN key_mappings \ VolumeControls |-> key_mappings[c]] }

\* the file is saved with another table, between two key callbacks
MappingChange(table) ==
  /\ mods < MaxMods
  /\ CallbackIdle
  /\ table /= mapping
  /\ mapping' = table
  /\ mods' = mods + 1
  /\ out' = NoMsg
  /\ UNCHANGED <<vol, last, chan, port, down, hpc, hcall, held, ktype, stop,
                 tref, threads, presses, seq, ticks, sync, rep, early,
                 seqVars, concVars, encVars, sendVars, cbVars, mixVars, navVars,
                 files, ccache, cfile, cmtime, cwho, rs, loads>>

\* released() of a key that was pressed as Volume Up / Volume Down and whose
\* entry is now missing or names another command: the key is re-rendered,
\* _stop_volume_key_repeat is not called
ReleaseOther(c) ==
  /\ CallbackIdle /\ down[c]
  /\ VerbOf(c) = None
  /\ down' = [down EXCEPT ![c] = FALSE]
  /\ out' = NoMsg
  /\ UNCHANGED <<vol, last, chan, port, mapping, hpc, hcall, held, ktype,
                 stop, tref, threads, presses, seq, ticks, sync, rep, early,
                 seqVars, concVars, sideVars>>

NextReload ==
  \/ NextRepeat
  \/ \E table \in MappingTables : MappingChange(table)
  \/ \E c \in VolumeControls : ReleaseOther(c)

SpecReload == InitRepeat /\ [][NextReload]_vars

(***************************************************************************)
(* DeckManager and the navigation key (SpecPages).  key_callback hands     *)
(* every event to the deck that is active when the event arrives; the      *)
(* Volume Up / Volume Down controls of the model are on the main deck.     *)
(***************************************************************************)
\* get_active_deck
get_active_deck == decks[Len(decks)]

\* NavigationToggleControl.released(): on the main deck the second deck is
\* pushed (set_active_deck), on the second deck it is popped
\* (pop_active_deck)
NavigationReleased ==
  /\ CallbackIdle
  /\ decks' = IF Len(decks) = 1
              THEN Append(decks, "second")
              ELSE SubSeq(decks, 1, Len(decks) - 1)
  /\ out' = NoMsg
  /\ UNCHANGED <<vol, last, chan, port, seqVars, concVars, repVars, encVars,
                 sendVars, cbVars, cacheVars, mixVars>>

\* a key that went down on the main deck goes up while the second deck is
\* active: released(key) reaches the second deck, whose control for the key
\* (if it has one) is another object
ReleaseOnOtherDeck(c) ==
  /\ CallbackIdle /\ down[c]
  /\ get_active_deck /= "main"
  /\ down' = [down EXCEPT ![c] = FALSE]
  /\ out' = NoMsg
  /\ UNCHANGED <<vol, last, chan, port, mapping, hpc, hcall, held, ktype,
                 stop, tref, threads, presses, seq, ticks, sync, rep, early,
                 seqVars, concVars, sideVars>>

\* key_callback, a press: get_active_deck().pressed(key); the second deck has
\* other controls for the keys
DeckPressed(c) ==
  /\ get_active_deck = "main"
  /\ IF c \in VolumeControls THEN PressStop(c) ELSE PressSelect(c)

\* key_callback, a release: get_active_deck().released(key)
DeckReleased(c) ==
  IF get_active_deck = "main" THEN ReleaseStop(c) ELSE ReleaseOnOtherDeck(c)

\* SpecRepeat with the navigation key: the steps inside a callback and the
\* steps of the repeat threads do not depend on the active deck
NextPages ==
  \/ \E c \in Controls : DeckPressed(c)
  \/ \E c \in VolumeControls : DeckReleased(c)
  \/ NavigationReleased
  \/ \E c \in VolumeControls : PressArm(c)
  \/ \E c \in VolumeControls : PressGet(c)
  \/ \E c \in VolumeControls : PressSet(c)
  \/ \E c \in VolumeControls : PressSend(c)
  \/ \E c \in VolumeControls : PressAbort(c)
  \/ \E c \in VolumeControls : StopJoin(c)
  \/ \E t \in Tids : ThreadExit(t)
  \/ \E t \in Tids : DelayElapsed(t)
  \/ \E t \in Tids : LoopSet(t)
  \/ \E t \in Tids : LoopSend(t)
  \/ \E t \in Tids : IntervalElapsed(t)

SpecPages == InitRepeat /\ [][NextPages]_vars

(***************************************************************************)
(* Keys of the CC namespace with any command name, and the generic verbs   *)
(* (SpecDispatch).                                                         *)
(***************************************************************************)
\* the command names a mapping entry of the CC namespace is given: the keys
\* of cc_midis, one of them in mixed case, and the names _key_name_to_volume
\* has for the master register
CCKeyNames ==
  DOMAIN cc_midis \cup {"Voice1", "Master Volume", "MASTER VOLUME", "MASTER"}

\* pressed() of a key whose entry is (key_name, cc_midis): a name cc_midis
\* does not have is an error on the key ("INVALID KEY"); else the matched
\* name is recorded as last pressed and the CC message is sent
PressName(key_name) ==
  /\ presses < MaxPresses
  /\ CallbackIdle
  /\ presses' = presses + 1
  /\ LET matched_key == find_key_in_dict(Strip(key_name), cc_midis)
         volume_name == VolumeNameOf(matched_key)
     IN IF matched_key = None
        THEN /\ out' = NoMsg
             /\ UNCHANGED last
        ELSE /\ last' = matched_key
             /\ out' = IF volume_name /= None
                       THEN send_cc(cc_midis[matched_key], vol[volume_name], 15, port)
                       ELSE send_cc(cc_midis[matched_key], 64, 0, port)
  /\ UNCHANGED <<vol, chan, port, mapping, down, hpc, hcall, held, ktype, stop,
                 tref, threads, seq, sync, rep, early, ticks, seqVars, concVars, sideVars>>

NextDispatch ==
  \/ \E key_name \in CCKeyNames : PressName(key_name)
  \/ IncrementLastPressedVolume(DEFAULT_AMOUNT)
  \/ DecrementLastPressedVolume(DEFAULT_AMOUNT)
  \/ ToggleMuteLastPressedVolume

SpecDispatch == InitVol /\ [][NextDispatch]_vars

\* SpecRepeat with the Mute key, the pedal and tab keys and the keys whose
\* press is ignored
NextPress ==
  \/ NextRepeat
  \/ \E c \in AllControls : PressCommand(c)
  \/ \E c \in AllControls : PressIgnored(c)
  \/ \E c \in AllControls : PressMute(c)

SpecPress == InitRepeat /\ [][NextPress]_vars

NextCallback ==
  \/ \E ev \in Events : KeyCallback(ev)
  \/ DeckCall
  \/ ControlPressed
  \/ ControlReleased
  \/ ControlHandler
  \/ DeckExcept

SpecCallback == InitRepeat /\ [][NextCallback]_vars

NextCache ==
  \/ \E t \in Resolvers, req \in Requests : StartResolve(t, req)
  \/ \E t \in Resolvers : ReadCache(t)
  \/ \E t \in Resolvers : ReadFile(t)
  \/ \E t \in Resolvers : Locate(t)
  \/ \E t \in Resolvers : ReadContent(t)
  \/ \E t \in Resolvers : WriteCache(t)
  \/ \E t \in Resolvers : WriteFile(t)
  \/ \E t \in Resolvers : WriteMtime(t)
  \/ \E n \in FileNames : Modify(n)
  \/ \E n \in FileNames : Corrupt(n)
  \/ \E n \in FileNames : Delete(n)

SpecCache == InitRepeat /\ [][NextCache]_vars

InitSysex ==
  /\ InitManager
  /\ port = TRUE
  /\ InitSeq
  /\ InitCallers
  /\ start = 80
  /\ InitControls
  /\ ecall \in SysexCalls
  /\ edata = NoData
  /\ InitSend
  /\ InitCallback
  /\ InitCache

NextSysex == FormatPedalSysex \/ FormatTabSysex

SpecSysex == InitSysex /\ [][NextSysex]_vars

InitCC ==
  /\ InitManager
  /\ port \in BOOLEAN
  /\ InitSeq
  /\ InitCallers
  /\ start = 80
  /\ InitControls
  /\ ecall \in CCCalls
  /\ edata = NoData
  /\ InitSend
  /\ InitCallback
  /\ InitCache

NextCC == SendCC

SpecCC == InitCC /\ [][NextCC]_vars

InitLookup ==
  /\ InitManager
  /\ port = TRUE
  /\ InitSeq
  /\ InitCallers
  /\ start = 80
  /\ InitControls
  /\ ecall \in LookupCalls
  /\ edata = NoData
  /\ InitSend
  /\ InitCallback
  /\ InitCache

NextLookup == FindKeyInDict

SpecLookup == InitLookup /\ [][NextLookup]_vars

InitSendCall ==
  /\ InitManager
  /\ port \in BOOLEAN
  /\ InitSeq
  /\ InitCallers
  /\ start = 80
  /\ InitControls
  /\ ecall \in SendCalls
  /\ edata = NoData
  /\ InitSend
  /\ InitCallback
  /\ InitCache

NextSend == CmdOpen \/ CmdOn \/ CmdOff

SpecSend == InitSendCall /\ [][NextSend]_vars

(***************************************************************************)
(* Properties.                                                             *)
(***************************************************************************)
VolumeOps == {"increment", "decrement", "mute", "toggle", "set"}

C2_NoLostUpdate ==
  (\A p \in Callers : cpc[p] = "done")
     => vol["style"] = Min(start + MaxCallers, 127)

\* C3: at every instant at most one repeat thread is alive, over all keys.
C3_AtMostOneLiveTask ==
  Cardinality({t \in Tids : Alive(t)}) <= 1

\* thread t makes the step that writes the register (_set_volume)
Mutates(t) ==
  threads[t].pc = "c_set" /\ threads'[t].pc = "c_send"

\* C4: while the key of one verb is held down and the press of the key of
\* the other verb, made after it, has been handled, the repeat thread of the
\* first key writes no register.
C4_DifferentVerbDestroys ==
  [][\A c, d \in VolumeControls :
       IF /\ c /= d /\ down[c] /\ down[d] /\ VerbOf(c) /= VerbOf(d)
          /\ seq[c] < seq[d] /\ hpc[d] = "idle" /\ tref[c] /= NoThread
       THEN ~Mutates(tref[c])
       ELSE TRUE]_vars

\* C5: when a Volume Up/Down key was released before the initial delay of
\* its press had elapsed, the press has changed the register once, by the
\* handler's own call, and the key's repeat threads have not changed it.
C5_ExactlyOneIncrement ==
  \A c \in VolumeControls : early[c] => sync[c] = 1 /\ rep[c] = 0

C7_AtMostOneFurther ==
  [][\A t \in Tids :
       threads[t].rel \in {"handled", "repressed"}
          => ~(threads[t].pc /= "c_set" /\ threads'[t].pc = "c_set")]_vars

C9_FirstStepSynchronous ==
  /\ \A c \in VolumeControls : (hpc[c] = "idle" /\ held[c]) => sync[c] = 1
  /\ \A t \in Tids :
       threads[t].pc \in {"c_set", "c_send", "wait"} => threads[t].elapsed

\* pressed() has returned, the register has its first step and the thread
\* of the press is still in its initial delay
C9_Witness ==
  \E c \in VolumeControls :
    /\ hpc[c] = "idle" /\ held[c] /\ sync[c] = 1 /\ rep[c] = 0
    /\ tref[c] /= NoThread
    /\ threads[tref[c]].pc = "delay"
    /\ vol["style"] /= 80

\* C10: toggle_mute_last_pressed_volume writes 0 to a register that is not
\* 0 and 80 to a register that is 0, and returns that value; two toggles in
\* a row on a register that was not 0 leave 80.
C10_ToggleMute ==
  /\ op1.kind = "toggle" =>
       /\ vol[op1.reg] = (IF op1.before = 0 THEN 80 ELSE 0)
       /\ ret = vol[op1.reg]
  /\ (op1.kind = "toggle" /\ op2.kind = "toggle" /\ op2.reg = op1.reg
      /\ op2.before /= 0) => vol[op1.reg] = 80

\* two toggles in a row from 90: the register holds 80, not 90
C10_Witness ==
  /\ op1.kind = "toggle" /\ op2.kind = "toggle" /\ op2.reg = op1.reg
  /\ op2.before = 90 /\ op1.before = 0 /\ vol[op1.reg] = 80

\* a call of one of the three *_last_pressed_volume methods
LastPressedCall ==
  \/ \E a \in Amounts \cup {DEFAULT_AMOUNT} : IncrementLastPressedVolume(a)
  \/ \E a \in Amounts : DecrementLastPressedVolume(a)
  \/ ToggleMuteLastPressedVolume

\* C11: when the last-pressed-key name is None, empty or maps to no register,
\* increment_, decrement_ and toggle_mute_last_pressed_volume return None,
\* leave every register as it was and call send_cc not at all.
C11_NoTargetNoEffect ==
  [][(VolumeNameOf(last) = None /\ LastPressedCall)
       => (ret' = NoValue /\ vol' = vol /\ out' = NoMsg /\ last' = last)]_vars

\* toggle-mute called while the pointer names PLAYER, a CC key without register
C11_Witness ==
  /\ op1.kind = "toggle_last" /\ op2.kind = "set_last"
  /\ last = "PLAYER" /\ ret = NoValue /\ out = NoMsg
  /\ vol = [r \in Registers |-> 80]

\* the press of key c being handled, or the last one handled, got None from
\* its own increment/decrement and has called _stop_volume_key_repeat
Aborted(c) ==
  \/ hpc[c] = "a_join"
  \/ hpc[c] = "idle" /\ down[c] /\ seq[c] > 0 /\ sync[c] = 0

\* the repeat thread started by the current press of key c
OwnThread(t, c) == Alive(t) /\ threads[t].ctl = c /\ threads[t].rel = "no"

C13_FreshIncrementIs81 ==
  [][(ops = 0 /\ IncrementLastPressedVolume(DEFAULT_AMOUNT))
       => /\ ret' = 81
          /\ vol' = [vol EXCEPT !["style"] = 81]
          /\ vol["style"] = 80]_vars

\* the first call made on the manager was that increment
C13_Witness ==
  /\ ops = 1 /\ op1 = [kind |-> "increment", reg |-> "style", before |-> 80]
  /\ last = "Style" /\ ret = 81 /\ vol["style"] = 81

\* C14: when pressed() of a key of the CC namespace whose key_name matches a
\* cc_midis entry case-insensitively returns, the last-pressed-key name is
\* that entry's name as the catalogue spells it, whether the CC message
\* could be sent or not.
C14_SelectSetsPointer ==
  [][\A c \in SelectControls :
       PressSelect(c) =>
         /\ last' \in DOMAIN cc_midis
         /\ Upper(last') = Upper(mapping[c].key_name)
         /\ out'.control = cc_midis[last']
         /\ out'.status = (IF port THEN "sent" ELSE "failed")]_vars

\* the key mapped to "Voice1" pressed with the port closed: the send failed
\* and the pointer is VOICE1
C14_Witness ==
  /\ ~port /\ presses = 1 /\ ops = 0
  /\ out.status = "failed" /\ out.control = cc_midis["VOICE1"]
  /\ last = "VOICE1"

\* C15: the CC message of an increment, decrement, mute or toggle-mute of
\* the master register has control number 7, the new master value and the
\* channel midi_out_channel - 1, whatever the last-pressed-key name is.
C15_MasterExpression ==
  (op1.kind \in {"increment", "decrement", "mute", "toggle"} /\ op1.reg = "master")
    => /\ out.control = 7
       /\ out.channel = chan - 1
       /\ out.value = vol["master"]
       /\ out.status \in {"sent", "failed"}

\* increment_master(10) with output channel 5 while the pointer names PLAYER
C15_Witness ==
  /\ op1 = [kind |-> "increment", reg |-> "master", before |-> 80]
  /\ last = "PLAYER" /\ chan = 5
  /\ out.control = 7 /\ out.channel = 4 /\ out.value = 90

\* C16: every increment, decrement, mute, toggle-mute or set_volume that
\* changes a register's value calls send_cc with the register's new value;
\* no register changes without an emission attempt.
C16_EveryChangeEmits ==
  (op1.kind \in VolumeOps /\ vol[op1.reg] /= op1.before)
    => (out.status /= "none" /\ out.value = vol[op1.reg])

\* the control numbers of messages that carry a register's value: those of
\* the catalogue names that select a register, and Expression for master
VolumeCCs ==
  {cc_midis[k] : k \in {n \in DOMAIN cc_midis : VolumeNameOf(n) /= None}}
    \cup {EXPRESSION_CC}

\* C17: every CC message that carries a register's value, whether sent by
\* Volume Up / Volume Down / Mute or by the press of a volume key of the CC
\* namespace, is sent on channel midi_out_channel - 1.
C17_VolumeChannel ==
  (out.status /= "none" /\ out.control \in VolumeCCs) => out.channel = chan - 1

\* C18: when the port is closed or port.send raises, an increment or
\* decrement still stores the clamped new value in the register and returns
\* it; the failure is not raised and the register is not rolled back.
C18_FailedSendKeepsValue ==
  (~port /\ op1.kind \in {"increment", "decrement"})
    => /\ out.status \in {"failed", "none"}
       /\ \E a \in Amounts \cup {DEFAULT_AMOUNT} :
            LET new_value == IF op1.kind = "increment"
                             THEN Max(0, Min(127, op1.before + a))
                             ELSE Max(0, Min(127, op1.before - a))
            IN vol[op1.reg] = new_value /\ ret = new_value
       /\ vol[op1.reg] = ret

\* increment_lower(10) from 80 with the port closed: the send failed, the
\* register holds 90 and 90 was returned
C18_Witness ==
  /\ ~port /\ op1 = [kind |-> "increment", reg |-> "lower", before |-> 80]
  /\ out.status = "failed" /\ out.value = 90
  /\ vol["lower"] = 90 /\ ret = 90

\* the encoding the device expects for a command code and a state
ReferencePayload(code, on_state) ==
  IF code < 128
  THEN <<67, 0, code, IF on_state THEN 127 ELSE 0>>
  ELSE <<67, 0, code \div 128, code % 128, IF on_state THEN 127 ELSE 0>>

\* C19: for every command of the pedal and tab catalogues, on and off, the
\* payload format_pedal_sysex / format_tab_sysex returns is
\* [0x43, 0x00, code, state] when code < 128 and
\* [0x43, 0x00, code >> 7, code & 0x7F, state] when code >= 128, with state
\* 0x7F for on and 0x00 for off; every byte of it is in 0..127.
C19_SysexEncoding ==
  (edata /= NoData /\ ecall.fn \in {"format_pedal_sysex", "format_tab_sysex"}) =>
    LET catalogue == IF ecall.fn = "format_pedal_sysex" THEN pedal_midis ELSE tab_midis
    IN IF ecall.name \in DOMAIN catalogue
       THEN /\ edata.error = "none"
            /\ edata.data = ReferencePayload(catalogue[ecall.name], ecall.on_state)
            /\ \A i \in 1..Len(edata.data) : edata.data[i] \in 0..127
       ELSE edata.error = "KeyError" /\ edata.data = <<>>

\* the pedal command "Clear Image" (0xC2) switched off: 43 00 01 42 00
C19_Witness ==
  /\ ecall = [fn |-> "format_pedal_sysex", name |-> "Clear Image", on_state |-> FALSE]
  /\ edata.data = <<67, 0, 1, 66, 0>>

\* C20: send_cc(control, value, channel) called with control or value
\* outside 0..127 or channel outside 0..15 returns failure and gives the port
\* nothing; called with parameters in range and an open port it gives the
\* port exactly [0xB0 + channel, control, value]; whatever it gives the port
\* has the parameters as they were passed, never clamped.
C20_SendCCRejectsOrEmits ==
  (edata /= NoData /\ ecall.fn = "send_cc") =>
    LET valid == /\ ecall.control \in 0..127
                 /\ ecall.value \in 0..127
                 /\ ecall.channel \in 0..15
        message == <<176 + ecall.channel, ecall.control, ecall.value>>
    IN /\ ~valid => (out.status = "rejected" /\ edata.data = <<>>)
       /\ (valid /\ port) => (out.status = "sent" /\ edata.data = message)
       /\ (valid /\ ~port) => (out.status = "failed" /\ edata.data = <<>>)
       /\ edata.data /= <<>> => edata.data = message

\* send_cc(102, 64, 0) with an open port: B0 66 40
C20_Witness ==
  /\ ecall = [fn |-> "send_cc", control |-> 102, value |-> 64, channel |-> 0]
  /\ port /\ out.status = "sent" /\ edata.data = <<176, 102, 64>>

\* C21: send_pedal_command / send_tab_command gives the port the ON payload
\* before the OFF payload, each at most once; the OFF payload is never sent
\* unless the ON payload was accepted; the call returns True exactly when
\* both were accepted.
C21_OnThenOff ==
  ecall.fn \in {"send_pedal_command", "send_tab_command"} =>
    /\ Len(wire) <= 2
    /\ Len(wire) >= 1 => wire[1] = FormatFor(ecall, TRUE).data
    /\ Len(wire) = 2 => wire[2] = FormatFor(ecall, FALSE).data
    /\ \A i \in 1..Len(wire) : wire[i] /= <<>>
    /\ eres = "True" <=> (epc = "done" /\ Len(wire) = 2)
    /\ epc = "done" => eres \in {"True", "False"}

\* "Start/Stop" of the pedal catalogue sent with success: 43 00 12 7F, then
\* 43 00 12 00
C21_Witness ==
  /\ ecall = [fn |-> "send_pedal_command", name |-> "Start/Stop"]
  /\ wire = << <<67, 0, 18, 127>>, <<67, 0, 18, 0>> >>
  /\ eres = "True" /\ epc = "done"

\* C22: a finished lookup of name n in catalogue D returns n itself when n is
\* a key of D, otherwise the key of D whose lower-cased form equals the
\* lower-cased n when there is one, and None when there is none; "start/stop"
\* resolves to "Start/Stop"
C22_CaseInsensitiveLookup ==
  (ecall.fn = "find_key_in_dict" /\ edata /= NoData) =>
    LET D == DOMAIN Catalogue(ecall.dict)
        n == ecall.name
        r == edata.data[1]
        matches == {k \in D : Lower(k) = Lower(n)}
    IN /\ matches /= {} => r \in matches
       /\ n \in D => r = n
       /\ matches = {} => r = None
       /\ (n = "start/stop" /\ ecall.dict = "pedal_midis") => r = "Start/Stop"

\* "start/stop" was looked up in the pedal catalogue and "Start/Stop" returned
C22_Witness ==
  /\ ecall = [fn |-> "find_key_in_dict", name |-> "start/stop", dict |-> "pedal_midis"]
  /\ edata = [error |-> "none", data |-> <<"Start/Stop">>]

\* the four cases of C23: the key has no mapping entry, its command name is
\* empty, its source list is none of the three, or the source list does not
\* have the name
Unresolvable(c) ==
  \/ ~HasMapping(c)
  \/ HasMapping(c) /\ KeyName(c) = ""
  \/ HasMapping(c) /\ KeyName(c) /= "" /\ mapping[c].source_list_name \notin SourceLists
  \/ /\ HasMapping(c) /\ KeyName(c) /= "" /\ mapping[c].source_list_name \in SourceLists
     /\ find_key_in_dict(KeyName(c), Catalogue(mapping[c].source_list_name)) = None

\* the key's command is Volume Up, Volume Down or Mute
VerbKey(c) == HasMapping(c) /\ IsVerb(KeyName(c))

\* a step of pressed() of key c
PressStep(c) ==
  \/ PressIgnored(c) \/ PressCommand(c) \/ PressMute(c)
  \/ c \in SelectControls /\ PressSelect(c)
  \/ /\ c \in VolumeControls
     /\ \/ PressStop(c) \/ PressArm(c) \/ PressGet(c)
        \/ PressSet(c) \/ PressSend(c) \/ PressAbort(c)

\* the step changes no register and not the pointer, emits nothing and
\* starts no repeat session
NoCoreEffect ==
  /\ vol' = vol /\ last' = last
  /\ out' = NoMsg /\ wire' = wire
  /\ threads' = threads /\ tref' = tref /\ held' = held /\ ktype' = ktype

\* C23 as stated: the press of a key with no mapping entry, an empty command
\* name, an unknown source list or a name its source list does not have
\* changes no register and not the pointer, emits nothing and starts no
\* repeat session
C23_UnresolvableNoEffect ==
  [][\A c \in AllControls : (Unresolvable(c) /\ PressStep(c)) => NoCoreEffect]_vars

\* C23 amended: the same for every such key whose command name is not
\* Volume Up, Volume Down or Mute; those three are handled before the source
\* list is looked at
C23_UnresolvableNoEffectExceptVerbs ==
  [][\A c \in AllControls :
       (Unresolvable(c) /\ ~VerbKey(c) /\ PressStep(c)) => NoCoreEffect]_vars

\* Volume Up was pressed first and raised the register the pointer names;
\* the second press was ignored: the pointer is where it was, no register
\* is muted, nothing was emitted and no pedal or tab command was sent
C23_Witness ==
  /\ presses = 2
  /\ seq["kUp"] = 1 /\ seq["kDown"] = 0
  /\ CallbackIdle
  /\ last = "Style"
  /\ vol["style"] = RESTORE_VOLUME + 1
  /\ \A r \in Registers \ {"style"} : vol[r] = RESTORE_VOLUME
  /\ out = NoMsg
  /\ wire = <<>> /\ eres = "pending"

C25_NeverStale ==
  \A t \in Resolvers :
    (rs[t].pc = "done" /\ rs[t].res.path = Located(rs[t].req)) =>
      rs[t].res.ver >= rs[t].start

\* the step in which thread t returns from _get_key_mapping
Returns(t) == rs[t].pc /= "done" /\ rs'[t].pc = "done"

\* C26: a call that finds its file missing or not loadable leaves the cache
\* cleared and returns None, and a call never returns the table of a file
\* other than the one it was asked for
C26_MissingClearsCache ==
  [][\A t \in Resolvers :
       Returns(t) =>
         /\ rs'[t].why \in {"missing", "unloadable"} =>
              (rs'[t].res = NoTable /\ ccache' = NoTable)
         /\ rs'[t].res /= NoTable => rs'[t].res.path = Located(rs'[t].req)]_vars

\* C27: the cache fields a call reads in its test (the table and the path)
\* were written by the same load, and the table it returns is the content
\* its own file had at some time
C27_FieldsFromOneLoad ==
  \A t \in Resolvers :
    /\ (rs[t].pc \notin {"idle", "check", "check2"} /\ rs[t].seenc /= 0) =>
         rs[t].seenf = rs[t].seenc
    /\ (rs[t].pc = "done" /\ rs[t].res /= NoTable) =>
         /\ rs[t].res.path = Located(rs[t].req)
         /\ rs[t].res.ver <= files[rs[t].res.path].ver

\* the orders in which the callers' calls can be run one after the other
Orders ==
  {o \in [1..MaxCallers -> Callers] : \A i, j \in 1..MaxCallers : o[i] = o[j] => i = j}

\* the register after the first n calls of order o run one after the other
RECURSIVE SeqValue(_, _)
SeqValue(o, n) ==
  IF n = 0 THEN start ELSE clamp_volume(NewValue(ckind[o[n]], SeqValue(o, n - 1)))

\* the calls, all returned, left the register and their return values as
\* order o run sequentially does
AsSequential(o) ==
  /\ vol["style"] = SeqValue(o, MaxCallers)
  /\ \A n \in 1..MaxCallers : cval[o[n]] = NewValue(ckind[o[n]], SeqValue(o, n - 1))

\* C28: when all concurrent increment, decrement and toggle calls on the
\* register have returned, its value and their return values are those of
\* some sequential order of the calls
C28_Linearized ==
  (\A p \in Callers : cpc[p] = "done") => \E o \in Orders : AsSequential(o)

\* C29: the configured output channel is in 1..16 in every reachable state
\* and every CC message handed to the encoder carries a 0-based channel in
\* 0..15; set_midi_out_channel stores its argument clamped into 1..16, and
\* initialize() with a 'midi_channel' setting outside 1..16 leaves the
\* channel as it was
C29_ChannelStep ==
  /\ \A ch \in Channels :
       SetMidiOutChannel(ch) =>
         /\ chan' \in 1..16
         /\ (ch \in 1..16 => chan' = ch)
         /\ (ch < 1 => chan' = 1)
         /\ (ch > 16 => chan' = 16)
  /\ \A midi_channel \in MidiChannelSettings :
       Initialize(midi_channel) =>
         chan' = IF InRange(midi_channel) THEN midi_channel.value ELSE chan

C29_ChannelInRange ==
  /\ [](chan \in 1..16 /\ (out /= NoMsg => out.channel \in 0..15))
  /\ [][C29_ChannelStep]_vars

\* the channel was set to 9, a later out-of-range setting was ignored by
\* initialize(), and the next volume step went out on 0-based channel 8
C29_Witness ==
  /\ ops = 3
  /\ op2.kind = "initialize"
  /\ op1.kind \in {"increment", "decrement"}
  /\ chan = 9
  /\ out.status = "sent"
  /\ out.channel = 8

\* the key's command is a name of the CC namespace that the lookup finds
ResolvableCC(c) ==
  /\ Dispatched(c)
  /\ mapping[c].source_list_name = "cc_midis"
  /\ find_key_in_dict(KeyName(c), cc_midis) /= None

\* a step of a Volume Up / Volume Down press or release, or of a repeat
\* thread
RepeatStep ==
  \/ \E c \in VolumeControls :
       \/ PressStop(c) \/ PressArm(c) \/ PressGet(c) \/ PressSet(c)
       \/ PressSend(c) \/ PressAbort(c) \/ ReleaseStop(c) \/ StopJoin(c)
  \/ \E t \in Tids :
       \/ ThreadExit(t) \/ DelayElapsed(t) \/ LoopSet(t) \/ LoopSend(t)
       \/ IntervalElapsed(t)

\* C30: the pointer to the last pressed key changes only in the press of a
\* key whose command the CC namespace resolves, and becomes the matched
\* name; Volume Up, Volume Down and Mute presses, every repeat tick, pedal
\* and tab presses, releases and ignored presses leave it as it is
C30_PointerStep ==
  /\ last' /= last =>
       \E c \in AllControls :
         /\ ResolvableCC(c)
         /\ PressSelect(c)
         /\ last' = find_key_in_dict(KeyName(c), cc_midis)
  /\ RepeatStep => last' = last
  /\ \A c \in AllControls :
       (PressMute(c) \/ PressCommand(c) \/ PressIgnored(c)) => last' = last

C30_PointerOnlyByCCPress == [][C30_PointerStep]_vars

\* a CC key was pressed and the pointer moved to its name; the pedal or tab
\* press that followed put its messages on the wire and left the pointer there
C30_Witness ==
  /\ presses = MaxPresses
  /\ last \in DOMAIN cc_midis
  /\ last /= "Style"
  /\ wire /= <<>>
  /\ out = NoMsg
  /\ ticks = 0

\* the operations that change one register by a step or a mute
StepOps == {"increment", "decrement", "mute", "toggle"}

\* the values an operation of the given kind can leave in a register that
\* held the value before
IsolatedResults(kind, before) ==
  CASE kind = "increment" ->
         {increment_value(before, a) : a \in Amounts \cup {DEFAULT_AMOUNT}}
    [] kind = "decrement" -> {decrement_value(before, a) : a \in Amounts}
    [] kind = "mute" -> {0}
    [] kind = "toggle" -> {toggle_value(before)}

\* C31: an increment, decrement, mute or toggle-mute of one register, called
\* by name or through the last pressed key, leaves the other nine registers,
\* the last pressed key name and the output channel as they were; after two
\* such operations on different registers each register holds the value the
\* operation on it alone would have given it
C31_FrameStep ==
  (ops' = ops + 1 /\ op1'.kind \in StepOps) =>
    /\ \A r \in Registers \ {op1'.reg} : vol'[r] = vol[r]
    /\ last' = last
    /\ chan' = chan

C31_Isolated ==
  (ops >= 2 /\ op1.kind \in StepOps /\ op2.kind \in StepOps /\ op1.reg /= op2.reg) =>
    /\ vol[op1.reg] \in IsolatedResults(op1.kind, op1.before)
    /\ vol[op2.reg] \in IsolatedResults(op2.kind, op2.before)

C31_OnlyTargetChanges ==
  /\ []C31_Isolated
  /\ [][C31_FrameStep]_vars

\* lower was incremented by 10 through its own method and master then muted:
\* lower holds 90, master 0, the other eight registers their initial 80
C31_Witness ==
  /\ ops = 2
  /\ op2.kind = "increment" /\ op2.reg = "lower" /\ op2.before = 80
  /\ op1.kind = "mute" /\ op1.reg = "master"
  /\ vol["lower"] = 90
  /\ vol["master"] = 0
  /\ \A r \in Registers \ {"lower", "master"} : vol[r] = 80
  /\ last = "Style"
  /\ chan = 16

\* C32: mute_<register> leaves the register at 0 and returns 0 whatever the
\* register held, and a second mute_<register> finds 0 and leaves 0
C32_MuteStep ==
  \A r \in ApiRegisters : Mute(r) => (vol'[r] = 0 /\ ret' = 0)

C32_MuteTwice ==
  /\ op1.kind = "mute" => (vol[op1.reg] = 0 /\ ret = 0)
  /\ (op1.kind = "mute" /\ op2.kind = "mute" /\ op1.reg = op2.reg) =>
       (op1.before = 0 /\ vol[op1.reg] = 0 /\ ret = 0)

C32_MuteIdempotent ==
  /\ []C32_MuteTwice
  /\ [][C32_MuteStep]_vars

\* lower was raised to 90, muted, and muted again: it holds 0, not 80
C32_Witness ==
  /\ ops = 3
  /\ op2.kind = "mute" /\ op2.reg = "lower" /\ op2.before = 90
  /\ op1.kind = "mute" /\ op1.reg = "lower" /\ op1.before = 0
  /\ vol["lower"] = 0
  /\ ret = 0

\* the control numbers cc_midis has for the keys that _key_name_to_volume
\* maps to the register
RegisterCCs(volume_name) ==
  {cc_midis[k] : k \in {n \in DOMAIN cc_midis : VolumeNameOf(n) = volume_name}}

\* C33: a CC message emitted for the change of a register other than master
\* carries a control number that cc_midis has for that register, in the
\* synchronous step of a press and in every tick of a repeat thread, whatever
\* key is pressed between the register write and the send
C33_EmissionStep ==
  /\ \A t \in Tids :
       (LoopSend(t) /\ threads[t].reg /= "master" /\ out' /= NoMsg) =>
         out'.control \in RegisterCCs(threads[t].reg)
  /\ \A c \in VolumeControls :
       (PressSend(c) /\ hcall[c].reg /= "master" /\ out' /= NoMsg) =>
         out'.control \in RegisterCCs(hcall[c].reg)

C33_ControlOfRegister == [][C33_EmissionStep]_vars

\* C34: when all concurrent increment_style calls have returned and the port
\* accepted every message, the last message emitted for the style register
\* carries the value the register holds
C34_LastEmissionIsFinal ==
  (port /\ \A p \in Callers : cpc[p] = "done") =>
    (out.status = "sent" /\ out.value = vol["style"])

\* thread t passes the test at the top of its loop and enters
\* increment/decrement_last_pressed_volume
StartsCall(t) ==
  threads[t].pc \in {"delay", "wait"} /\ threads'[t].pc = "c_set"

\* C35: a repeat thread whose session was ended by released(), and whose key
\* has been pressed again since, starts no increment or decrement: the
\* stop.clear() of the new press does not let it pass the loop test again
C35_NoRevival ==
  [][\A t \in Tids : threads[t].rel = "repressed" => ~StartsCall(t)]_vars

\* C36: when released() of a key has returned, the repeat session that the
\* press of the key started is ended (held is false), whatever has happened
\* to the mapping file since the press
C36_ReleaseEndsSession ==
  \A c \in VolumeControls : (~down[c] /\ hpc[c] = "idle") => ~held[c]

\* C37: while no key is down and no key callback is running, no repeat
\* thread starts an increment or decrement, whichever deck was active when
\* the keys went up
C37_AllReleasedNoRepeat ==
  [][(\A c \in VolumeControls : ~down[c] /\ hpc[c] = "idle") =>
       \A t \in Tids : ~StartsCall(t)]_vars

\* C38: the press of a key of the CC namespace whose name maps to a register
\* changes no register, and the CC message it sends carries the control
\* number of the key and the value the register holds
C38_SelectStep ==
  \A c \in SelectControls :
    LET matched_key == find_key_in_dict(mapping[c].key_name, cc_midis)
    IN (PressSelect(c) /\ VolumeNameOf(matched_key) /= None) =>
         /\ vol' = vol
         /\ out'.control = cc_midis[matched_key]
         /\ out'.value = vol[VolumeNameOf(matched_key)]
         /\ out'.value = vol'[VolumeNameOf(matched_key)]

C38_SelectKeepsRegisters == [][C38_SelectStep]_vars

\* the Voice1 key was pressed after the voice1 register had been raised to
\* 81: the message of the press carries 81 and the register still holds 81
C38_Witness ==
  /\ presses = 2
  /\ chan = 5
  /\ last = "VOICE1"
  /\ vol["voice1"] = 81
  /\ out.status = "sent"
  /\ out.control = cc_midis["VOICE1"]
  /\ out.value = 81
  /\ out.channel = 15

\* C39: as long as a key can be pressed, every register, master included,
\* can be made the target of the generic verbs by the press of a key of the
\* CC namespace
C39_EveryRegisterSelectable ==
  presses < MaxPresses =>
    \A r \in Registers :
      \E key_name \in CCKeyNames :
        ENABLED (PressName(key_name) /\ VolumeNameOf(last') = r)
====
